---- MODULE Spec2Model ----
(***************************************************************************)
(* PyTASER differential absorption engine: internalAs.band_occupancies,    *)
(* internalAs.generate_As (src/pytaser/createinternalDas.py) and           *)
(* DASGenerator.generate_das (src/pytaser/dasgenerator.py, and its renamed *)
(* copy src/pytaser/das_generator.py).                                     *)
(*                                                                         *)
(* Numbers.  Energies are integers counting a fixed quantum of energy.     *)
(* Python floats are binary floating point numbers: the model keeps the    *)
(* IEEE rule (round to nearest, ties to even significand) and shortens the *)
(* significand from 53 bits to FPrec bits, so that the rounding of         *)
(* numpy.arange happens on small numbers.  Occupancies are integers in     *)
(* 0..OccOne standing for 0..1.  Python arrays are indexed from 0; the     *)
(* energy mesh and the spectra over it are sequences, so mesh point m of   *)
(* the code is element m+1 here; bands and k-points keep the code's        *)
(* 0-based indices.                                                        *)
(***************************************************************************)
EXTENDS Integers, Sequences, FiniteSets, TLC

\* ---- bounds of the model -------------------------------------------------
\* bits of the significand of a float (53 in the code)
FPrec == 3
\* largest energy (in quanta) drawn for a mesh bound in SpecMesh
MaxEnergy == 16
\* largest number of bands of a spin channel
MaxBands == 3
\* largest temperature drawn
MaxTemp == 1
\* number of k-points of a band structure
NumKpoints == 2

\* ---- values ---------------------------------------------------------------
\* an optional value: Python's None is the empty tuple, any other value v is
\* the one-element tuple holding it
None == <<>>
Some(v) == <<v>>
Val(o) == o[1]
\* an exception: its class and the pieces of its message (the backquotes that
\* a message puts around a value are left out)
Error(type, message) == [type |-> type, message |-> message]
\* occupancy 1 (a completely filled state)
OccOne == 4
\* pymatgen's Spin.up, Spin.down
SpinUp == "Spin.up"
SpinDown == "Spin.down"

Abs(x) == IF x < 0 THEN -x ELSE x
Sign(x) == IF x < 0 THEN -1 ELSE 1
Max2(a, b) == IF a > b THEN a ELSE b

RECURSIVE Pow2(_)
Pow2(n) == IF n <= 0 THEN 1 ELSE 2 * Pow2(n - 1)

RECURSIVE SumSeq(_)
SumSeq(s) == IF s = <<>> THEN 0 ELSE Head(s) + SumSeq(Tail(s))

\* pointwise operations of numpy arrays of equal length
ZeroArray(n) == [m \in 1..n |-> 0]
ArrAdd(a, b) == [m \in 1..Len(a) |-> a[m] + b[m]]
ArrSub(a, b) == [m \in 1..Len(a) |-> a[m] - b[m]]

\* ---- binary floating point ------------------------------------------------
\* the spacing of the floats around a number of magnitude a: the least power
\* of two u with a < 2^FPrec * u
RECURSIVE UlpFrom(_, _)
UlpFrom(a, u) == IF a < Pow2(FPrec) * u THEN u ELSE UlpFrom(a, 2 * u)

Ulp(n) == UlpFrom(Abs(n), 1)

\* the float nearest to the real number n, ties to the even significand
RoundToFloat(n) ==
  LET u == Ulp(n)
      a == Abs(n)
      lo == (a \div u) * u
      r == a - lo
      up == IF 2 * r > u THEN TRUE
            ELSE IF 2 * r < u THEN FALSE
            ELSE ((lo \div u) % 2) = 1
  IN Sign(n) * (IF up THEN lo + u ELSE lo)

IsFloat(n) == RoundToFloat(n) = n

\* num/den (both positive) rounded to the nearest integer, ties to even
RoundRatio(num, den) ==
  LET q == num \div den
      r == num % den
  IN IF 2 * r > den \/ (2 * r = den /\ q % 2 = 1) THEN q + 1 ELSE q

CeilRatio(num, den) == (num + den - 1) \div den

\* least power of two s >= 1 with a * s >= 2^(FPrec-1) * b
RECURSIVE ScaleUp(_, _, _)
ScaleUp(a, b, s) ==
  IF a * s >= Pow2(FPrec - 1) * b THEN s ELSE ScaleUp(a, b, 2 * s)

\* least power of two u >= 1 with a < 2^FPrec * b * u
RECURSIVE ScaleDown(_, _, _)
ScaleDown(a, b, u) ==
  IF a < Pow2(FPrec) * b * u THEN u ELSE ScaleDown(a, b, 2 * u)

\* ceil of the float quotient a / b, for a > 0 and b > 0: the quotient is
\* rounded to FPrec significant bits before the ceiling is taken
CeilFloatQuotient(a, b) ==
  IF a < b THEN 1
  ELSE IF a >= Pow2(FPrec - 1) * b
       THEN LET u == ScaleDown(a, b, 1) IN RoundRatio(a, b * u) * u
       ELSE LET s == ScaleUp(a, b, 1) IN CeilRatio(RoundRatio(a * s, b), s)

\* ---- numpy.arange(start, stop, step) --------------------------------------
\* length: ceil((stop - start) / step) in float arithmetic, 0 when that is
\* not positive (step is not 0 here)
ArangeLength(start, stop, step) ==
  LET val == RoundToFloat(stop - start)
  IN IF (val > 0 /\ step > 0) \/ (val < 0 /\ step < 0)
     THEN CeilFloatQuotient(Abs(val), Abs(step))
     ELSE 0

\* contents: element 0 is start, element 1 is start + step, and element i >= 2
\* is start + i * delta with delta = element 1 - element 0, every operation
\* rounded
ArangeItem(start, step, i) ==
  LET next == RoundToFloat(start + step)
      delta == RoundToFloat(next - start)
  IN IF i = 0 THEN start
     ELSE IF i = 1 THEN next
     ELSE RoundToFloat(start + RoundToFloat(i * delta))

Arange(start, stop, step) ==
  [m \in 1..ArangeLength(start, stop, step) |-> ArangeItem(start, step, m - 1)]

\* ---- the electronic structure handed to internalAs -------------------------
\* bs.bands.items() yields Spin.up, then Spin.down when there are two channels
SpinSeq(ns) == IF ns = 1 THEN <<SpinUp>> ELSE <<SpinUp, SpinDown>>

Kpoints == 0..(NumKpoints - 1)

\* index of the highest valence band of a spin channel (generator.get_cbm_vbm_index)
VbIndex(nb, spin) == IF spin = SpinUp THEN nb - 2 ELSE Max2(0, nb - 3)

\* band energies of the catalogue's band structures, around the reference
\* energy ref.  Non-metal: valence bands end at ref - 1 and conduction bands
\* start at ref + 1.  Metal: band vb crosses ref and band vb + 1 touches ref
\* at the even k-points.
BandEnergy(metal, ref, vb, b, k) ==
  LET disp == k % 2
  IN IF metal
     THEN (IF b < vb THEN ref - 3 * (vb - b) - disp
           ELSE IF b = vb THEN ref - 1 + 2 * disp
           ELSE ref + 3 * (b - vb - 1) + 2 * disp)
     ELSE (IF b <= vb THEN ref - 1 - 3 * (vb - b) - disp
           ELSE ref + 1 + 3 * (b - vb - 1) + disp)

\* a pymatgen band structure: bands per spin, is_metal(), efermi, the energies
\* of get_vbm() and get_cbm(), get_band_gap()["energy"]
BandStructure(ns, nb, metal) ==
  LET ref == ns - 1
      spins == {SpinSeq(ns)[j] : j \in 1..ns}
  IN [ bands |-> [s \in spins |-> [b \in 0..(nb - 1) |-> [k \in Kpoints |->
                    BandEnergy(metal, ref, VbIndex(nb, s), b, k)]]],
       spin_order |-> SpinSeq(ns),
       is_metal |-> metal,
       is_spin_polarized |-> (ns = 2),
       efermi |-> ref,
       vbm |-> ref - 1,
       cbm |-> ref + 1,
       band_gap |-> IF metal THEN 0 ELSE 2,
       vb_index |-> [s \in spins |-> VbIndex(nb, s)] ]

\* a DielectricFunctionCalculator: the grid (nedos points from 0, step deltae),
\* the complex shift of the calculation, the band energies and k-point weights
\* of the optics calculation, and the transition dipole weight of every
\* (i, f, k)
Dfc(bs, kweights) ==
  [ nedos |-> 3,
    deltae |-> 2,
    cshift |-> 0,
    eigs |-> bs.bands[SpinUp],
    kweights |-> kweights,
    tdm |-> [i \in DOMAIN bs.bands[SpinUp] |-> [f \in DOMAIN bs.bands[SpinUp] |->
               [k \in Kpoints |-> 1 + ((i + 2 * f + k) % 3)]]] ]

\* internalAs.__init__
InternalAs(bs, kpoint_weights, dfc) ==
  [ bs |-> bs,
    kpoint_weights |-> kpoint_weights,
    dfc |-> dfc,
    bg_centre |-> IF bs.is_metal THEN bs.efermi ELSE (bs.cbm + bs.vbm) \div 2,
    vb |-> bs.vb_index ]

KpointWeights == [k \in Kpoints |-> k + 1]

Systems ==
  { InternalAs(BandStructure(ns, nb, metal), KpointWeights,
               IF hasDfc THEN Some(Dfc(BandStructure(ns, nb, metal), KpointWeights))
               ELSE None) :
      ns \in 1..2, nb \in 2..MaxBands, metal \in BOOLEAN, hasDfc \in BOOLEAN }

NumBands(sys, spin) == Cardinality(DOMAIN sys.bs.bands[spin])

\* ---- band_occupancies -------------------------------------------------------
\* pymatgen's f0(E, fermi, T) = 1 / (1 + exp((E - fermi) / (k_B T))), in units
\* of 1/OccOne: a step smeared over one temperature unit; at T = 0 numpy gives
\* exp(+-inf), that is the sharp step (E = fermi gives nan and is never
\* selected by a mask); at T < 0 the exponent changes sign and the step is
\* upside down
F0(E, fermi, temp) ==
  LET d == IF temp < 0 THEN fermi - E ELSE E - fermi
  IN IF d = 0 THEN OccOne \div 2
     ELSE IF temp # 0 /\ Abs(d) <= Abs(temp)
          THEN (IF d < 0 THEN (3 * OccOne) \div 4 ELSE OccOne \div 4)
          ELSE (IF d < 0 THEN OccOne ELSE 0)

\* a variant of hole_mask that takes the reference energy itself as hole-like
hole_mask_inclusive(E, bg_centre) == E <= bg_centre

hole_mask(E, bg_centre) == E < bg_centre
elec_mask(E, bg_centre) == E > bg_centre

\* a variant of spin_occ that applies the Fermi function to every system
spin_occ_always_fermi(sys, E, temp) ==
  IF hole_mask(E, sys.bg_centre) \/ elec_mask(E, sys.bg_centre)
  THEN F0(E, sys.bg_centre, temp) ELSE 0

\* one entry of spin_occs
spin_occ(sys, E, temp) ==
  IF sys.bs.is_metal
  THEN (IF hole_mask(E, sys.bg_centre) \/ elec_mask(E, sys.bg_centre)
        THEN F0(E, sys.bg_centre, temp) ELSE 0)
  ELSE (IF hole_mask(E, sys.bg_centre) THEN OccOne
        ELSE IF elec_mask(E, sys.bg_centre) THEN 0
        ELSE 0)

band_occupancies(sys, temp) ==
  [s \in DOMAIN sys.bs.bands |-> [b \in DOMAIN sys.bs.bands[s] |-> [k \in Kpoints |->
     spin_occ(sys, sys.bs.bands[s][b][k], temp)]]]

\* an occupancy override a caller may pass: one quarter of a carrier moved
\* from the highest valence band to the band above it
ExcitedOccs(sys) ==
  [s \in DOMAIN sys.bs.bands |-> [b \in DOMAIN sys.bs.bands[s] |-> [k \in Kpoints |->
     IF b < sys.vb[s] THEN OccOne
     ELSE IF b = sys.vb[s] THEN OccOne - 1
     ELSE IF b = sys.vb[s] + 1 THEN 1
     ELSE 0]]]

\* ---- generator.jdos and generator.occ_dependent_alpha ---------------------
\* the broadening kernel at distance d from its centre; a hat of half-width
\* 2 * width stands for the Gaussian
Gaussian(d, width) == Max2(0, 2 * width - Abs(d))

\* jdos(bs, f, i, occs, energies, kweights, gaussian_width, spin): over the
\* k-points, kweights[k] * occs[i][k] * (1 - occs[f][k]) times the kernel
\* centred at the transition energy
jdos(bs, f, i, occ, energies, kweights, gaussian_width, spin) ==
  [m \in 1..Len(energies) |->
     SumSeq([n \in 1..NumKpoints |->
        LET k == n - 1
        IN kweights[k] * occ[i][k] * (OccOne - occ[f][k])
           * Gaussian(energies[m] - (bs.bands[spin][f][k] - bs.bands[spin][i][k]),
                      gaussian_width)])]

\* the dielectric grid: linspace(0, nedos * deltae, nedos, endpoint=False)
Egrid(dfc) == [g \in 1..dfc.nedos |-> (g - 1) * dfc.deltae]

\* occ_dependent_alpha: absorption minus stimulated emission of every pair
\* i < f and k-point on the dielectric grid ("both"), and the dipole weights.
\* The kernel is widened by cshift, or by the shift of the calculation when
\* cshift is None; the number of worker processes shares the work out and
\* does not enter the values.
occ_dependent_alpha(dfc, occ, sigma, cshift, processes, energy_max) ==
  LET nb == Cardinality(DOMAIN dfc.eigs)
      shift == IF cshift = None THEN dfc.cshift ELSE Val(cshift)
      pair(g, i, f) ==
        SumSeq([n \in 1..NumKpoints |->
           LET k == n - 1
           IN dfc.kweights[k] * dfc.tdm[i][f][k]
              * (occ[i][k] * (OccOne - occ[f][k]) - occ[f][k] * (OccOne - occ[i][k]))
              * Gaussian(Egrid(dfc)[g] - (dfc.eigs[f][k] - dfc.eigs[i][k]),
                         sigma + shift)])
  IN [ both |-> [g \in 1..dfc.nedos |->
                   SumSeq([n \in 1..(nb * nb) |->
                      LET i == (n - 1) \div nb
                          f == (n - 1) % nb
                      IN IF i < f THEN pair(g, i, f) ELSE 0])],
       tdm_array |-> dfc.tdm ]

\* a variant of InterpAt that takes the value of the grid point to the left
InterpAtLeftNeighbour(x, xp, fp) ==
  IF x <= xp[1] THEN fp[1]
  ELSE IF x >= xp[Len(xp)] THEN fp[Len(fp)]
  ELSE fp[CHOOSE j \in 1..(Len(xp) - 1) : xp[j] <= x /\ x < xp[j + 1]]

\* numpy.interp(x, xp, fp) at one point: linear between the grid points,
\* fp[0] to the left of the grid and fp[-1] to its right
InterpAt(x, xp, fp) ==
  IF x <= xp[1] THEN fp[1]
  ELSE IF x >= xp[Len(xp)] THEN fp[Len(fp)]
  ELSE LET j == CHOOSE j \in 1..(Len(xp) - 1) : xp[j] <= x /\ x < xp[j + 1]
       IN fp[j] + ((fp[j + 1] - fp[j]) * (x - xp[j])) \div (xp[j + 1] - xp[j])

Interp(x, xp, fp) == [m \in 1..Len(x) |-> InterpAt(x[m], xp, fp)]

\* ---- state -----------------------------------------------------------------
VARIABLES
  referenceSystem,       \* DASGenerator.referenceSystem
  newSystem,             \* DASGenerator.newSystem
  args,                  \* the arguments of the generate_das call
  pc,                    \* position of the call
  das_locals,            \* generate_das: bandgap_ref, bandgap_newSys, energy_mesh_ev
  self,                  \* generate_As: which system it runs on ("ref" or "new")
  occs,                  \* generate_As: occs
  energy_mesh_ev,        \* generate_As: energy_mesh_ev
  jdos_dark_if,          \* generate_As: jdos_dark_if
  weighted_jdos_dark_if, \* generate_As: weighted_jdos_dark_if
  jdos_dark_total,       \* generate_As: jdos_dark_total
  alpha_dark,            \* generate_As: alpha_dark (None while unbound)
  tdm_array,             \* generate_As: tdm_array (None while unbound)
  loop,                  \* generate_As: position of the loops over spin, i, f
  ret,                   \* the tuples returned by the two generate_As calls
  das,                   \* the Das container generate_das returns
  calls,                 \* the generator.jdos / occ_dependent_alpha calls made
  container,             \* TASPlotter: the fields __init__ copies from the container
  plot_args,             \* the arguments of the get_plot call
  plot_pc,               \* position of the get_plot call
  plot_locals,           \* get_plot: energy_mesh, bg, xmin_ind, xmax_ind, abs_label,
                         \* transition_dict
  lines,                 \* the lines plt.plot has drawn on the figure
  vasp_args,             \* the arguments of the internal_from_vasp call
  vasp_pc,               \* position of the internal_from_vasp call
  vasp_locals,           \* internal_from_vasp: vr, waveder, dfc
  vasp_ret,              \* the internalAs object internal_from_vasp returns
  first_call,            \* the arguments and results of an earlier generate_das call
  mpid_call,             \* DASGenerator.from_mpid: its arguments, position and locals
  rescale,               \* _rescale_overlapping_curves: its argument, position and locals
  raised                 \* the exception a call has raised (None while none)

\* the state of the calls other than generate_das
plot_vars == <<container, plot_args, plot_pc, plot_locals, lines>>
vasp_vars == <<vasp_args, vasp_pc, vasp_locals, vasp_ret>>
side_calls == <<first_call, mpid_call, rescale>>
other_calls == <<plot_vars, vasp_vars, side_calls, raised>>

vars == <<referenceSystem, newSystem, args, pc, das_locals, self, occs,
          energy_mesh_ev, jdos_dark_if, weighted_jdos_dark_if, jdos_dark_total,
          alpha_dark, tdm_array, loop, ret, das, calls, other_calls>>

as_locals == <<occs, energy_mesh_ev, jdos_dark_if, weighted_jdos_dark_if,
               jdos_dark_total, alpha_dark, tdm_array, loop>>

inputs == <<referenceSystem, newSystem, args>>

\* an empty Python dict
EmptyDict == [key \in {} |-> 0]
\* d[key] = value
DictSet(d, key, value) ==
  [x \in (DOMAIN d) \cup {key} |-> IF x = key THEN value ELSE d[x]]

\* the sum over the keys of a dict of arrays of their values at mesh point m
RECURSIVE DictSumAt(_, _, _)
DictSumAt(d, keys, m) ==
  IF keys = {} THEN 0
  ELSE LET key == CHOOSE x \in keys : TRUE
       IN d[key][m] + DictSumAt(d, keys \ {key}, m)

\* the system a generate_As call runs on
System(which) == IF which = "ref" THEN referenceSystem ELSE newSystem

\* a variant of CallArgs that passes no occupancies for the new system
CallArgsWithoutNewOccs(which) ==
  [ temp |-> args.temp,
    energy_min |-> args.energy_min,
    energy_max |-> args.energy_max,
    gaussian_width |-> args.gaussian_width,
    cshift |-> args.cshift,
    step |-> args.step,
    occs |-> IF which = "ref" THEN args.ref_occs ELSE None,
    processes |-> args.processes ]

\* a variant of CallArgs that passes processes where cshift belongs
CallArgsProcessesAsCshift(which) ==
  [ temp |-> args.temp,
    energy_min |-> args.energy_min,
    energy_max |-> args.energy_max,
    gaussian_width |-> args.gaussian_width,
    cshift |-> args.processes,
    step |-> args.step,
    occs |-> IF which = "ref" THEN args.ref_occs ELSE args.newSys_occs,
    processes |-> args.processes ]

\* a variant of CallArgs that hands each system the occupancies of the other
CallArgsSwappedOccs(which) ==
  [ temp |-> args.temp,
    energy_min |-> args.energy_min,
    energy_max |-> args.energy_max,
    gaussian_width |-> args.gaussian_width,
    cshift |-> args.cshift,
    step |-> args.step,
    occs |-> IF which = "ref" THEN args.newSys_occs ELSE args.ref_occs,
    processes |-> args.processes ]

\* the arguments generate_das passes to generate_As for the reference system
\* and for the new system
CallArgs(which) ==
  [ temp |-> args.temp,
    energy_min |-> args.energy_min,
    energy_max |-> args.energy_max,
    gaussian_width |-> args.gaussian_width,
    cshift |-> args.cshift,
    step |-> args.step,
    occs |-> IF which = "ref" THEN args.ref_occs ELSE args.newSys_occs,
    processes |-> args.processes ]

\* the arguments drawn for a generate_das call
MeshArgs == { <<0, 5, 2>>, <<1, 5, 2>> }

ArgsOf(temp, mesh, new_occs, reference_occs) ==
  [ temp |-> temp,
    energy_min |-> mesh[1],
    energy_max |-> mesh[2],
    step |-> mesh[3],
    gaussian_width |-> 1,
    cshift |-> None,
    newSys_occs |-> new_occs,
    ref_occs |-> reference_occs,
    processes |-> None ]

\* nothing has run: the locals of generate_As and of generate_das are unbound
Idle ==
  /\ das_locals = None
  /\ self = "ref"
  /\ occs = None
  /\ energy_mesh_ev = <<>>
  /\ jdos_dark_if = EmptyDict
  /\ weighted_jdos_dark_if = EmptyDict
  /\ jdos_dark_total = <<>>
  /\ alpha_dark = None
  /\ tdm_array = None
  /\ loop = [spin_pos |-> 1, i |-> 0, f |-> 0]
  /\ ret = [ref |-> None, new |-> None]
  /\ das = None
  /\ calls = <<>>

\* no other call has been made
NoPlotCall ==
  /\ container = None
  /\ plot_args = None
  /\ plot_pc = "not_called"
  /\ plot_locals = None
  /\ lines = <<>>

NoVaspCall ==
  /\ vasp_args = None
  /\ vasp_pc = "not_called"
  /\ vasp_locals = None
  /\ vasp_ret = None

NoSideCall == first_call = None /\ mpid_call = None /\ rescale = None

NoOtherCall == NoPlotCall /\ NoVaspCall /\ NoSideCall /\ raised = None

Init ==
  /\ referenceSystem \in Systems
  /\ newSystem \in Systems
  /\ \E temp \in 0..MaxTemp, mesh \in MeshArgs,
        new_occs \in {None, Some(ExcitedOccs(newSystem))},
        reference_occs \in {None, Some(ExcitedOccs(referenceSystem))} :
       args = ArgsOf(temp, mesh, new_occs, reference_occs)
  /\ pc = "generate_das"
  /\ Idle
  /\ NoOtherCall

\* ---- generate_das, lines 173-178 and the first call ---------------------------
GenerateDas_Begin ==
  /\ pc = "generate_das"
  /\ args.step # 0
  /\ das_locals' = Some([ bandgap_ref |-> referenceSystem.bs.band_gap,
                          bandgap_newSys |-> newSystem.bs.band_gap,
                          energy_mesh_ev |->
                            Arange(args.energy_min, args.energy_max, args.step) ])
  /\ self' = "ref"
  /\ pc' = "generate_As"
  /\ UNCHANGED <<other_calls, inputs, as_locals, ret, das, calls>>

\* numpy.arange with step 0 divides by it: ZeroDivisionError for Python
\* numbers, and for numpy floats an infinite length that numpy refuses
ArangeZeroStepErrors ==
  { Error("ZeroDivisionError", <<"division by zero">>),
    Error("ZeroDivisionError", <<"float division by zero">>),
    Error("ValueError", <<"Maximum allowed size exceeded">>) }

\* line 178 with step = 0: np.arange raises after the band gaps are read
GenerateDas_ZeroStep ==
  /\ pc = "generate_das"
  /\ args.step = 0
  /\ \E err \in ArangeZeroStepErrors : raised' = Some(err)
  /\ pc' = "raised"
  /\ UNCHANGED <<plot_vars, vasp_vars, side_calls, inputs, das_locals, self, as_locals, ret, das, calls>>

\* ---- generate_As ----------------------------------------------------------------
\* lines 195-197: the occupancies of the call
OccsOf(sys, a) ==
  IF a.occs = None THEN Some(band_occupancies(sys, a.temp)) ELSE a.occs

\* the band_occupancies call of line 197, when it is made
OccsCalls(which, a) ==
  IF a.occs = None
  THEN <<[fn |-> "band_occupancies", self |-> which, temp |-> a.temp]>>
  ELSE <<>>

\* the entry of a generate_As call: the system it is called on and its arguments
EntryCall(which, a) == <<[fn |-> "generate_As", self |-> which, args |-> a]>>

\* lines 195-212: the occupancies, the mesh and the empty accumulators
GenerateAs_Begin ==
  /\ pc = "generate_As"
  /\ CallArgs(self).step # 0
  /\ LET sys == System(self)
         a == CallArgs(self)
         mesh == Arange(a.energy_min, a.energy_max, a.step)
     IN /\ occs' = OccsOf(sys, a)
        /\ calls' = calls \o EntryCall(self, a) \o OccsCalls(self, a)
        /\ energy_mesh_ev' = mesh
        /\ jdos_dark_if' = EmptyDict
        /\ weighted_jdos_dark_if' = EmptyDict
        /\ jdos_dark_total' = ZeroArray(Len(mesh))
        /\ alpha_dark' = IF sys.dfc # None THEN Some(ZeroArray(Val(sys.dfc).nedos)) ELSE None
  /\ tdm_array' = None
  /\ loop' = [spin_pos |-> 1, i |-> 0, f |-> 0]
  /\ pc' = "for_spin"
  /\ UNCHANGED <<other_calls, inputs, das_locals, self, ret, das>>

\* lines 195-199 with step = 0: np.arange raises after the occupancies
GenerateAs_ZeroStep ==
  /\ pc = "generate_As"
  /\ CallArgs(self).step = 0
  /\ occs' = OccsOf(System(self), CallArgs(self))
  /\ calls' = calls \o EntryCall(self, CallArgs(self)) \o OccsCalls(self, CallArgs(self))
  /\ \E err \in ArangeZeroStepErrors : raised' = Some(err)
  /\ pc' = "raised"
  /\ UNCHANGED <<plot_vars, vasp_vars, side_calls, inputs, das_locals, self, energy_mesh_ev, jdos_dark_if,
                 weighted_jdos_dark_if, jdos_dark_total, alpha_dark, tdm_array, loop,
                 ret, das>>

\* the spin of the current iteration of the loop of line 214
CurrentSpin == System(self).bs.spin_order[loop.spin_pos]

\* lines 214-227: the next spin; with dielectric data, its alpha is added
GenerateAs_Spin ==
  /\ pc = "for_spin"
  /\ loop.spin_pos <= Len(System(self).bs.spin_order)
  /\ LET sys == System(self)
         a == CallArgs(self)
     IN IF sys.dfc # None
        THEN LET r == occ_dependent_alpha(Val(sys.dfc), Val(occs)[CurrentSpin],
                                          a.gaussian_width, a.cshift, a.processes,
                                          a.energy_max)
             IN /\ alpha_dark' = Some(ArrAdd(Val(alpha_dark), r.both))
                /\ tdm_array' = Some(r.tdm_array)
                /\ calls' = Append(calls, [fn |-> "occ_dependent_alpha", self |-> self,
                                           spin |-> CurrentSpin])
        ELSE UNCHANGED <<alpha_dark, tdm_array, calls>>
  /\ loop' = [loop EXCEPT !.i = 0, !.f = 0]
  /\ pc' = "for_i_f"
  /\ UNCHANGED <<other_calls, inputs, das_locals, self, occs, energy_mesh_ev, jdos_dark_if,
                 weighted_jdos_dark_if, jdos_dark_total, ret, das>>

\* a variant of Enumerated that lets the self-pairs through
EnumeratedWithSelfPairs(i, f) == f >= i

\* line 231: the pairs the loops evaluate
Enumerated(i, f) == f > i

\* a variant of TransitionKey that keeps the band indices as they are
TransitionKeyAbsolute(sys, spin, i, f) ==
  IF sys.bs.is_spin_polarized
  THEN <<i, f, IF spin = SpinUp THEN "up" ELSE "down">>
  ELSE <<i, f>>

\* a variant of TransitionKey that tags every spin "up"
TransitionKeyAlwaysUp(sys, spin, i, f) ==
  IF sys.bs.is_spin_polarized
  THEN <<i - sys.vb[spin], f - sys.vb[spin], "up">>
  ELSE <<i - sys.vb[spin], f - sys.vb[spin]>>

\* a variant of TransitionKey that never tags the spin
TransitionKeyWithoutSpin(sys, spin, i, f) ==
  <<i - sys.vb[spin], f - sys.vb[spin]>>

\* lines 244-251: the key of a transition
TransitionKey(sys, spin, i, f) ==
  LET new_i == i - sys.vb[spin]
      new_f == f - sys.vb[spin]
  IN IF sys.bs.is_spin_polarized
     THEN <<new_i, new_f, IF spin = SpinUp THEN "up" ELSE "down">>
     ELSE <<new_i, new_f>>

\* a variant of Advance that leaves the loop over i after its first row
AdvancePastFirstRow ==
  LET nb == NumBands(System(self), CurrentSpin)
  IN IF loop.f + 1 < nb THEN /\ loop' = [loop EXCEPT !.f = loop.f + 1]
                             /\ pc' = "for_i_f"
     ELSE /\ loop' = [spin_pos |-> loop.spin_pos + 1, i |-> 0, f |-> 0]
          /\ pc' = "for_spin"

\* the loops of lines 229-230 step to the next (i, f), or to the next spin
Advance ==
  LET nb == NumBands(System(self), CurrentSpin)
  IN IF loop.f + 1 < nb THEN /\ loop' = [loop EXCEPT !.f = loop.f + 1]
                             /\ pc' = "for_i_f"
     ELSE IF loop.i + 1 < nb THEN /\ loop' = [loop EXCEPT !.i = loop.i + 1, !.f = 0]
                                  /\ pc' = "for_i_f"
     ELSE /\ loop' = [spin_pos |-> loop.spin_pos + 1, i |-> 0, f |-> 0]
          /\ pc' = "for_spin"

\* a variant of PairJdos that reads the occupancy of Spin.up for every spin
PairJdosUpOccupancy(sys, a, spin, i, f) ==
  jdos(sys.bs, f, i, Val(occs)[SpinUp], energy_mesh_ev, sys.kpoint_weights,
       a.gaussian_width, spin)

\* lines 232-241: the JDOS of the pair
PairJdos(sys, a, spin, i, f) ==
  jdos(sys.bs, f, i, Val(occs)[spin], energy_mesh_ev, sys.kpoint_weights,
       a.gaussian_width, spin)

\* a variant of PairWeightedJdos that multiplies the finished curve by the
\* dipole weight of the first k-point
PairWeightedJdosScaledCurve(sys, a, spin, i, f) ==
  LET jd_dark == jdos(sys.bs, f, i, Val(occs)[spin], energy_mesh_ev,
                      sys.kpoint_weights, a.gaussian_width, spin)
  IN [m \in 1..Len(jd_dark) |-> Val(tdm_array)[i][f][0] * jd_dark[m]]

\* lines 256-266: the JDOS of the pair with the k-point weights times the
\* dipole weights
PairWeightedJdos(sys, a, spin, i, f) ==
  jdos(sys.bs, f, i, Val(occs)[spin], energy_mesh_ev,
       [k \in Kpoints |-> sys.kpoint_weights[k] * Val(tdm_array)[i][f][k]],
       a.gaussian_width, spin)

\* a variant of kpoint_weights_after in which the product is stored back into
\* self.kpoint_weights
kpoint_weights_weighted_in_place(sys, i, f) ==
  [k \in Kpoints |-> sys.kpoint_weights[k] * Val(tdm_array)[i][f][k]]

\* lines 257-263: np.array(self.kpoint_weights) * tdm_array[i, f, :] is built
\* in a new array; self.kpoint_weights keeps its values
kpoint_weights_after(sys, i, f) == sys.kpoint_weights

\* the system after the evaluations of one pair: no attribute is assigned
SystemAfterPair(sys) ==
  IF sys.dfc # None
  THEN [sys EXCEPT !.kpoint_weights = kpoint_weights_after(sys, loop.i, loop.f)]
  ELSE sys

\* lines 231-268: one pair with f > i
GenerateAs_Pair ==
  /\ pc = "for_i_f"
  /\ Enumerated(loop.i, loop.f)
  /\ LET sys == System(self)
         a == CallArgs(self)
         spin == CurrentSpin
         jd_dark == PairJdos(sys, a, spin, loop.i, loop.f)
         key == TransitionKey(sys, spin, loop.i, loop.f)
         call == [fn |-> "jdos", self |-> self, spin |-> spin,
                  i |-> loop.i, f |-> loop.f, weighted |-> FALSE]
     IN /\ jdos_dark_total' = ArrAdd(jdos_dark_total, jd_dark)
        /\ jdos_dark_if' = DictSet(jdos_dark_if, key, jd_dark)
        /\ IF sys.dfc # None
           THEN /\ weighted_jdos_dark_if' =
                     DictSet(weighted_jdos_dark_if, key,
                             PairWeightedJdos(sys, a, spin, loop.i, loop.f))
                /\ calls' = calls \o <<call, [call EXCEPT !.weighted = TRUE]>>
           ELSE /\ UNCHANGED weighted_jdos_dark_if
                /\ calls' = Append(calls, call)
  /\ Advance
  /\ referenceSystem' = IF self = "ref" THEN SystemAfterPair(referenceSystem)
                        ELSE referenceSystem
  /\ newSystem' = IF self = "new" THEN SystemAfterPair(newSystem) ELSE newSystem
  /\ UNCHANGED <<other_calls, args, das_locals, self, occs, energy_mesh_ev, alpha_dark,
                 tdm_array, ret, das>>

\* line 231 false: the pair is passed over
GenerateAs_Skip ==
  /\ pc = "for_i_f"
  /\ ~Enumerated(loop.i, loop.f)
  /\ Advance
  /\ UNCHANGED <<other_calls, inputs, das_locals, self, occs, energy_mesh_ev, jdos_dark_if,
                 weighted_jdos_dark_if, jdos_dark_total, alpha_dark, tdm_array,
                 ret, das, calls>>

\* a variant of ReturnOfAs that returns alpha on the dielectric grid
ReturnOfAsOnDielectricGrid(sys) ==
  [ jdos_dark_total |-> jdos_dark_total,
    jdos_dark_if |-> jdos_dark_if,
    alpha_dark |-> IF sys.dfc # None THEN alpha_dark ELSE None,
    weighted_jdos_dark_if |-> IF sys.dfc # None THEN Some(weighted_jdos_dark_if)
                              ELSE None ]

\* lines 270-279: the tuple generate_As returns
ReturnOfAs(sys) ==
  [ jdos_dark_total |-> jdos_dark_total,
    jdos_dark_if |-> jdos_dark_if,
    alpha_dark |-> IF sys.dfc # None
                   THEN Some(Interp(energy_mesh_ev, Egrid(Val(sys.dfc)), Val(alpha_dark)))
                   ELSE None,
    weighted_jdos_dark_if |-> IF sys.dfc # None THEN Some(weighted_jdos_dark_if)
                              ELSE None ]

\* the loop over the spins is over: generate_As returns to generate_das, which
\* calls it for the new system after the reference system, or to the caller
\* of generate_As when generate_das is not running
GenerateAs_Return ==
  /\ pc = "for_spin"
  /\ loop.spin_pos > Len(System(self).bs.spin_order)
  /\ ret' = [ret EXCEPT ![self] = Some(ReturnOfAs(System(self)))]
  /\ IF das_locals = None
     THEN self' = self /\ pc' = "returned"
     ELSE IF self = "ref"
     THEN self' = "new" /\ pc' = "generate_As"
     ELSE self' = self /\ pc' = "difference"
  /\ UNCHANGED <<other_calls, inputs, das_locals, as_locals, das, calls>>

\* ---- generate_das, lines 214-237 ---------------------------------------------
\* the truth value of an object in a condition: None is false, and a
\* DielectricFunctionCalculator (no __bool__, no __len__) is true
Truthy(o) == o # None

\* a variant of DasTotal that never takes the alpha path
DasTotalJdosOnly(jdos_newSys_total, jdos_ref_total, alpha_newSys, alpha_ref) ==
  ArrSub(jdos_newSys_total, jdos_ref_total)

\* a variant of DasTotal that uses the alpha of whichever side has one
DasTotalAnyAlpha(jdos_newSys_total, jdos_ref_total, alpha_newSys, alpha_ref) ==
  ArrSub(IF alpha_newSys # None THEN Val(alpha_newSys) ELSE jdos_newSys_total,
         IF alpha_ref # None THEN Val(alpha_ref) ELSE jdos_ref_total)

\* a variant of DasTotal that, without dielectric data on both sides,
\* differences only the transitions stored by both systems
DasTotalOverSharedKeys(jdos_newSys_total, jdos_ref_total, alpha_newSys, alpha_ref) ==
  IF Truthy(referenceSystem.dfc) /\ newSystem.dfc # None
  THEN ArrSub(Val(alpha_newSys), Val(alpha_ref))
  ELSE LET d_new == Val(ret.new).jdos_dark_if
           d_ref == Val(ret.ref).jdos_dark_if
           shared == (DOMAIN d_new) \cap (DOMAIN d_ref)
       IN [m \in 1..Len(jdos_newSys_total) |->
             DictSumAt(d_new, shared, m) - DictSumAt(d_ref, shared, m)]

\* lines 214-217
DasTotal(jdos_newSys_total, jdos_ref_total, alpha_newSys, alpha_ref) ==
  IF Truthy(referenceSystem.dfc) /\ newSystem.dfc # None
  THEN ArrSub(Val(alpha_newSys), Val(alpha_ref))
  ELSE ArrSub(jdos_newSys_total, jdos_ref_total)

\* lines 219-237: the arguments of Das(...), in the order they are passed
DasOf(r_new, r_ref) ==
  [ das_total |-> DasTotal(r_new.jdos_dark_total, r_ref.jdos_dark_total,
                           r_new.alpha_dark, r_ref.alpha_dark),
    jdos_newSys_total |-> r_new.jdos_dark_total,
    jdos_newSys_if |-> r_new.jdos_dark_if,
    jdos_ref_total |-> r_ref.jdos_dark_total,
    jdos_ref_if |-> r_ref.jdos_dark_if,
    energy_mesh_ev |-> Val(das_locals).energy_mesh_ev,
    bandgap_newSys |-> Val(das_locals).bandgap_newSys,
    bandgap_ref |-> Val(das_locals).bandgap_ref,
    temp |-> args.temp,
    alpha_newSys |-> IF newSystem.dfc # None THEN r_new.alpha_dark ELSE None,
    alpha_ref |-> IF referenceSystem.dfc # None THEN r_ref.alpha_dark ELSE None,
    weighted_jdos_newSys_if |->
      IF newSystem.dfc # None THEN r_new.weighted_jdos_dark_if ELSE None,
    weighted_jdos_ref_if |->
      IF referenceSystem.dfc # None THEN r_ref.weighted_jdos_dark_if ELSE None ]

GenerateDas_Finish ==
  /\ pc = "difference"
  /\ das' = Some(DasOf(Val(ret.new), Val(ret.ref)))
  /\ pc' = "done"
  /\ UNCHANGED <<other_calls, inputs, das_locals, self, as_locals, ret, calls>>

Next ==
  \/ GenerateDas_Begin
  \/ GenerateAs_Begin
  \/ GenerateAs_Spin
  \/ GenerateAs_Pair
  \/ GenerateAs_Skip
  \/ GenerateAs_Return
  \/ GenerateDas_Finish

Spec == Init /\ [][Next]_vars

\* ---- termination -------------------------------------------------------------
\* generate_das on a system differenced against itself, or generate_As on it
\* alone, on a proper mesh
InitTerminate ==
  /\ referenceSystem \in Systems
  /\ newSystem = referenceSystem
  /\ \E temp \in {0, MaxTemp}, mesh \in MeshArgs :
       args = ArgsOf(temp, mesh, None, None)
  /\ pc \in {"generate_das", "generate_As"}
  /\ Idle
  /\ NoOtherCall

\* the statement a call is at: its position and the indices of its loops
control == <<pc, loop>>

ControlPoints ==
  {"generate_das", "generate_As", "for_spin", "for_i_f", "difference", "done",
   "returned", "raised"}

LoopValues == [spin_pos : 1..3, i : 0..(MaxBands - 1), f : 0..(MaxBands - 1)]

\* the call is over: generate_das or the generate_As called alone has returned,
\* or an exception has left it
Over == pc \in {"done", "returned", "raised"}

\* the interpreter executes the statement the call is at: control moves on
Runs ==
  /\ ~Over
  /\ pc' \in ControlPoints
  /\ loop' \in LoopValues

\* the call is synchronous and single-threaded: nothing but its own return or
\* exception stops it, so control moves on as long as the call is not over
SpecTerminate == InitTerminate /\ [][Next]_vars /\ WF_control(Runs)

\* ---- calls with arguments outside their documented range ---------------------
\* mesh arguments: a proper mesh, energy_max below and at energy_min, step 0,
\* a negative step, and a negative step from the higher to the lower bound
ConfigMeshArgs ==
  { <<0, 5, 2>>, <<5, 0, 2>>, <<3, 3, 1>>, <<0, 5, 0>>, <<0, 5, -2>>, <<5, 0, -2>> }

\* generate_das on a system differenced against itself, or generate_As on it
\* alone, at a temperature that may be zero or negative
InitConfig ==
  /\ referenceSystem \in Systems
  /\ newSystem = referenceSystem
  /\ \E temp \in (-1)..MaxTemp, mesh \in ConfigMeshArgs :
       args = ArgsOf(temp, mesh, None, None)
  /\ pc \in {"generate_das", "generate_As"}
  /\ Idle
  /\ NoOtherCall

NextConfig ==
  \/ GenerateDas_Begin
  \/ GenerateDas_ZeroStep
  \/ GenerateAs_Begin
  \/ GenerateAs_ZeroStep
  \/ GenerateAs_Spin
  \/ GenerateAs_Pair
  \/ GenerateAs_Skip
  \/ GenerateAs_Return
  \/ GenerateDas_Finish

SpecConfig == InitConfig /\ [][NextConfig]_vars

\* ---- the same call with another number of worker processes -------------------
\* the processes arguments drawn: None (one less than the number of CPUs) or
\* a number of workers
ProcessesValues == {None, Some(1), Some(2)}

\* generate_das on two systems, both metals or both not, with a number of
\* worker processes
InitProcesses ==
  /\ referenceSystem \in Systems
  /\ newSystem \in {sys \in Systems : sys.bs.is_metal = referenceSystem.bs.is_metal}
  /\ \E processes \in ProcessesValues :
       args = [ArgsOf(MaxTemp, <<0, 5, 2>>, None, None) EXCEPT !.processes = processes]
  /\ pc = "generate_das"
  /\ Idle
  /\ NoOtherCall

\* after generate_das has returned, the caller keeps the result and calls it
\* once more with another processes argument and nothing else changed
GenerateDas_Again ==
  /\ pc = "done"
  /\ first_call = None
  /\ first_call' = Some([args |-> args, ret |-> ret, das |-> das])
  /\ \E processes \in ProcessesValues \ {args.processes} :
       args' = [args EXCEPT !.processes = processes]
  /\ pc' = "generate_das"
  /\ das_locals' = None
  /\ self' = "ref"
  /\ occs' = None
  /\ energy_mesh_ev' = <<>>
  /\ jdos_dark_if' = EmptyDict
  /\ weighted_jdos_dark_if' = EmptyDict
  /\ jdos_dark_total' = <<>>
  /\ alpha_dark' = None
  /\ tdm_array' = None
  /\ loop' = [spin_pos |-> 1, i |-> 0, f |-> 0]
  /\ ret' = [ref |-> None, new |-> None]
  /\ das' = None
  /\ calls' = <<>>
  /\ UNCHANGED <<plot_vars, vasp_vars, mpid_call, rescale, raised, referenceSystem,
                 newSystem>>

NextProcesses ==
  \/ GenerateDas_Begin
  \/ GenerateAs_Begin
  \/ GenerateAs_Spin
  \/ GenerateAs_Pair
  \/ GenerateAs_Skip
  \/ GenerateAs_Return
  \/ GenerateDas_Finish
  \/ GenerateDas_Again

SpecProcesses == InitProcesses /\ [][NextProcesses]_vars

\* ---- the energy mesh on its own ----------------------------------------------
\* the floats of 0..MaxEnergy
FloatValues == {n \in 0..MaxEnergy : IsFloat(n)}

SmallestSystem ==
  InternalAs(BandStructure(1, 2, FALSE), KpointWeights, None)

\* generate_das called with float bounds and a positive float step; the mesh
\* has fewer than 2^FPrec points (in the code, fewer than 2^53), so that every
\* index of the mesh is itself a float
InitMesh ==
  /\ referenceSystem = SmallestSystem
  /\ newSystem = SmallestSystem
  /\ \E lo \in FloatValues, hi \in FloatValues, st \in FloatValues \ {0} :
       /\ hi - lo < Pow2(FPrec) * st
       /\ args = ArgsOf(1, <<lo, hi, st>>, None, None)
  /\ pc = "generate_das"
  /\ Idle
  /\ NoOtherCall

\* the two places that build the mesh: generate_das line 178, generate_As line 199
NextMesh ==
  \/ GenerateDas_Begin
  \/ GenerateAs_Begin

SpecMesh == InitMesh /\ [][NextMesh]_vars

\* ---- plotter.py: TASPlotter.get_plot -------------------------------------------
\* a Python dict in insertion order: a sequence of <<key, value>> pairs
DictKeys(d) == [n \in 1..Len(d) |-> d[n][1]]
DictValues(d) == [n \in 1..Len(d) |-> d[n][2]]
DictItem(d, key) == d[CHOOSE n \in 1..Len(d) : d[n][1] = key][2]

\* a[lo:hi] of a Python sequence, lo and hi 0-based, negative from the end
SliceIndex(n, i) == IF i < 0 THEN Max2(0, n + i) ELSE IF i > n THEN n ELSE i
PySlice(a, lo, hi) ==
  LET from == SliceIndex(Len(a), lo)
      to == SliceIndex(Len(a), hi)
  IN [m \in 1..(to - from) |-> a[from + m]]

\* np.max(np.abs(a)) of an array that is not empty
MaxAbs(a) ==
  LET S == {Abs(a[m]) : m \in 1..Len(a)}
  IN CHOOSE x \in S : \A y \in S : y <= x

\* np.max(np.abs(rows)) of a 2-d array with at least one row
MaxAbsRows(rows) ==
  LET S == {MaxAbs(rows[n]) : n \in 1..Len(rows)}
  IN CHOOSE x \in S : \A y \in S : y <= x

\* np.max of an array without elements
ZeroSizeError ==
  Error("ValueError",
        <<"zero-size array to reduction operation maximum which has no identity">>)

\* an array divided by a number: the quotient is kept as the pair of the two
Divided(a, d) == [values |-> a, over |-> d]

\* ev_to_lambda, in wavelength quanta: LambdaFactor stands for h c / eV * 10e8
LambdaFactor == 12
ev_to_lambda(ev) == LambdaFactor \div ev

\* the energy mesh of the containers plotted, and their transition keys
PlotMesh == <<1, 2, 3, 4>>
PlotKeys == << <<0, 1>>, <<-1, 1>> >>

\* the data of a container: per-transition JDOS in the dark and under light,
\* their oscillator-weighted counterparts, and the alpha arrays
JdosDarkCurve(n, v) == [m \in 1..Len(PlotMesh) |-> ((n + m) % 3) + v]
JdosLightCurve(n, v) == [m \in 1..Len(PlotMesh) |-> ((n + 2 * m) % 4) + 1]
AlphaDarkCurve(v) == [m \in 1..Len(PlotMesh) |-> 2 * m + v]
AlphaAbsorptionCurve(v) == [m \in 1..Len(PlotMesh) |-> 3 * m + 1]
AlphaEmissionCurve(v) == [m \in 1..Len(PlotMesh) |-> m % 2]

RECURSIVE SumArrays(_, _)
SumArrays(arrays, n) ==
  IF arrays = <<>> THEN ZeroArray(n)
  ELSE ArrAdd(Head(arrays), SumArrays(Tail(arrays), n))

\* the container TASGenerator.generate_tas returns, as TASPlotter.__init__
\* copies it: without dielectric data tas_total is the JDOS difference and the
\* alpha and weighted fields are None; with it tas_total is absorption minus
\* emission under light minus alpha in the dark
TasContainer(has_dfc, nkeys, v) ==
  LET dark == [n \in 1..nkeys |-> <<PlotKeys[n], JdosDarkCurve(n, v)>>]
      light == [n \in 1..nkeys |-> <<PlotKeys[n], JdosLightCurve(n, v)>>]
      wdark == [n \in 1..nkeys |->
                  <<PlotKeys[n], [m \in 1..Len(PlotMesh) |-> (n + 1) * JdosDarkCurve(n, v)[m]]>>]
      wlight == [n \in 1..nkeys |->
                   <<PlotKeys[n], [m \in 1..Len(PlotMesh) |-> (n + 1) * JdosLightCurve(n, v)[m]]>>]
      diff(l, d) == [n \in 1..nkeys |-> <<PlotKeys[n], ArrSub(l[n][2], d[n][2])>>]
      dark_total == SumArrays(DictValues(dark), Len(PlotMesh))
      light_total == SumArrays(DictValues(light), Len(PlotMesh))
  IN [ tas_total |-> IF has_dfc
                     THEN ArrSub(ArrSub(AlphaAbsorptionCurve(v), AlphaEmissionCurve(v)),
                                 AlphaDarkCurve(v))
                     ELSE ArrSub(light_total, dark_total),
       jdos_diff_if |-> diff(light, dark),
       jdos_light_total |-> light_total,
       jdos_light_if |-> light,
       jdos_dark_total |-> dark_total,
       jdos_dark_if |-> dark,
       energy_mesh_ev |-> PlotMesh,
       bandgap |-> 2,
       energy_mesh_lambda |-> [m \in 1..Len(PlotMesh) |-> ev_to_lambda(PlotMesh[m])],
       bandgap_lambda |-> ev_to_lambda(2),
       alpha_dark |-> IF has_dfc THEN Some(AlphaDarkCurve(v)) ELSE None,
       alpha_light_dict |-> IF has_dfc
                            THEN Some([absorption |-> AlphaAbsorptionCurve(v),
                                       emission |-> AlphaEmissionCurve(v)])
                            ELSE None,
       weighted_jdos_light_if |-> IF has_dfc THEN Some(wlight) ELSE None,
       weighted_jdos_dark_if |-> IF has_dfc THEN Some(wdark) ELSE None,
       weighted_jdos_diff_if |-> IF has_dfc THEN Some(diff(wlight, wdark)) ELSE None ]

Containers ==
  { TasContainer(has_dfc, nkeys, v) : has_dfc \in BOOLEAN, nkeys \in 1..2, v \in 1..2 }

\* a container whose difference dicts list the transitions in the opposite
\* order to jdos_light_if (a mapping from transition keys to arrays has no
\* order of its own)
Reordered(c) ==
  LET reversed(d) == [n \in 1..Len(d) |-> d[Len(d) + 1 - n]]
  IN [c EXCEPT !.jdos_diff_if = reversed(c.jdos_diff_if),
               !.weighted_jdos_diff_if =
                  IF c.weighted_jdos_diff_if = None THEN None
                  ELSE Some(reversed(Val(c.weighted_jdos_diff_if)))]

PlotContainers == Containers \cup {Reordered(c) : c \in Containers}

\* relevant_transitions: "auto", or a list of transition keys
Auto == [auto |-> TRUE, list |-> <<>>]
Explicit(list) == [auto |-> FALSE, list |-> list]

\* the relevant_transitions and transition_cutoff (in hundredths) drawn: the
\* defaults, cutoffs of one half and of 1, and lists naming no transition,
\* one, both, and one that no dict holds
TransitionArgs ==
  { <<Auto, 3>>, <<Auto, 50>>, <<Auto, 100>>,
    <<Explicit(<<>>), 3>>,
    <<Explicit(<< <<0, 1>> >>), 3>>,
    <<Explicit(<< <<-1, 1>>, <<0, 1>> >>), 3>>,
    <<Explicit(<< <<2, 3>> >>), 3>> }

\* the yaxis arguments drawn, and str.lower() on them
YaxisValues ==
  { "tas", "TAS", "tas_absorption_only", "Tas_Absorption_Only", "jdos", "JDOS",
    "alpha", "ALPHA", "jdos_diff", "Jdos_Diff", "absorption" }

Lower(s) ==
  CASE s = "TAS" -> "tas"
    [] s = "Tas_Absorption_Only" -> "tas_absorption_only"
    [] s = "JDOS" -> "jdos"
    [] s = "ALPHA" -> "alpha"
    [] s = "Jdos_Diff" -> "jdos_diff"
    [] OTHER -> s

\* sub in s, for the lower-case yaxis names
HasSubstring(sub, s) ==
  CASE sub = "tas" -> s \in {"tas", "tas_absorption_only"}
    [] sub = "jdos_diff" -> s = "jdos_diff"
    [] OTHER -> sub = s

\* lines 150-156
ValidYaxis == {"tas", "tas_absorption_only", "jdos", "alpha", "jdos_diff"}

\* a get_plot call on a plotter, with xmin, xmax, ymin and ymax left at their
\* defaults
InitPlot ==
  /\ referenceSystem = SmallestSystem
  /\ newSystem = SmallestSystem
  /\ args = ArgsOf(0, <<0, 5, 2>>, None, None)
  /\ pc = "not_called"
  /\ Idle
  /\ container \in PlotContainers
  /\ \E yaxis \in YaxisValues, xaxis \in {"wavelength", "energy"},
        transitions \in TransitionArgs :
       plot_args = [yaxis |-> yaxis, xaxis |-> xaxis,
                    relevant_transitions |-> transitions[1],
                    transition_cutoff |-> transitions[2]]
  /\ plot_pc = "get_plot"
  /\ plot_locals = None
  /\ lines = <<>>
  /\ NoVaspCall
  /\ NoSideCall
  /\ raised = None

das_vars == <<inputs, pc, das_locals, self, as_locals, ret, das, calls>>

\* lines 150-185: the check of yaxis, the figure and the x axis
GetPlot_Begin ==
  /\ plot_pc = "get_plot"
  /\ IF Lower(plot_args.yaxis) \notin ValidYaxis
     THEN /\ raised' = Some(Error("ValueError",
                 <<"Invalid yaxis '", plot_args.yaxis, "' specified, must be one of: 'tas', ",
                   "'tas_absorption_only', 'jdos', 'alpha', 'jdos_diff'!">>))
          /\ plot_pc' = "raised"
          /\ UNCHANGED plot_locals
     ELSE /\ plot_locals' =
               Some([ energy_mesh |-> IF plot_args.xaxis = "wavelength"
                                      THEN container.energy_mesh_lambda
                                      ELSE container.energy_mesh_ev,
                      bg |-> IF plot_args.xaxis = "wavelength"
                             THEN container.bandgap_lambda ELSE container.bandgap,
                      xmin_ind |-> 0,
                      xmax_ind |-> -1,
                      abs_label |-> None,
                      transition_dict |-> None ])
          /\ plot_pc' = "total"
          /\ UNCHANGED raised
  /\ UNCHANGED <<das_vars, vasp_vars, side_calls, container, plot_args, lines>>

\* a variant of UsesAlpha that looks at the dielectric data only
UsesAlphaWheneverPresent(c, yaxis) == c.alpha_light_dict # None

\* a variant of UsesAlpha that looks for "jdos_diff" in yaxis as it was typed
UsesAlphaUnlessTypedJdosDiff(c, yaxis) ==
  c.alpha_light_dict # None /\ yaxis # "jdos_diff"

\* lines 257-260: the oscillator-weighted branch is taken
UsesAlpha(c, yaxis) ==
  c.alpha_light_dict # None /\ ~HasSubstring("jdos_diff", Lower(yaxis))

\* a variant of NeedsVaspOutputs that compares yaxis as it was typed
NeedsVaspOutputsAsTyped(yaxis) == yaxis \in {"tas_absorption_only", "alpha"}

\* line 433
NeedsVaspOutputs(yaxis) == Lower(yaxis) \in {"tas_absorption_only", "alpha"}

\* a plt.plot call: the label and the data of the line, y / over, multiplied
\* by 0.95 as many times as scaled says (none for the lines drawn as they are)
Line(label, x, y, over) ==
  [label |-> label, x |-> x, y |-> y, over |-> over, scaled |-> 0]

\* lines 249-332, 432-453 and 507-524: the curves of the totals.  The result is
\* the lines drawn, the exception raised if any, abs_label, transition_dict and
\* the part of get_plot that draws the transitions next.
TotalCurves(c, a, loc) ==
  LET y == Lower(a.yaxis)
      lo == loc.xmin_ind
      hi == loc.xmax_ind
      x == PySlice(loc.energy_mesh, lo, hi)
      out(drawn, err, label, tdict, next) ==
        [ lines |-> drawn, raised |-> err, abs_label |-> label,
          transition_dict |-> tdict, next |-> next ]
  IN IF y = "jdos"
     THEN out(<< Line("JDOS (light)", x, PySlice(c.jdos_light_total, lo, hi), 1),
                 Line("JDOS (dark)", x, PySlice(c.jdos_dark_total, lo, hi), 1) >>,
              None, Some("JDOS (a.u.)"), None, "jdos_transitions")
     ELSE IF UsesAlpha(c, a.yaxis)
     THEN LET rows == PySlice(DictValues(Val(c.weighted_jdos_diff_if)), lo, hi)
          IN IF rows = <<>>
             THEN out(<<>>, Some(ZeroSizeError), Some("ΔA (a.u.)"), None, "raised")
             ELSE IF HasSubstring("tas", y)
             THEN LET tas_total ==
                        IF y = "tas_absorption_only"
                        THEN ArrSub(Val(c.alpha_light_dict).absorption, Val(c.alpha_dark))
                        ELSE c.tas_total
                      tdict == [n \in 1..Len(Val(c.weighted_jdos_diff_if)) |->
                                  << Val(c.weighted_jdos_diff_if)[n][1],
                                     Divided(Val(c.weighted_jdos_diff_if)[n][2],
                                             MaxAbsRows(rows)) >>]
                  IN out(<< Line("Total TAS (Δα)", x, PySlice(tas_total, lo, hi),
                                 MaxAbs(PySlice(tas_total, lo, hi))) >>,
                         None, Some("ΔA (a.u.)"), Some(tdict), "transitions")
             ELSE LET factor == MaxAbs(PySlice(Val(c.alpha_dark), lo, hi))
                      drawn ==
                        << Line("α (light)", x,
                                ArrSub(PySlice(Val(c.alpha_light_dict).absorption, lo, hi),
                                       PySlice(Val(c.alpha_light_dict).emission, lo, hi)),
                                factor),
                           Line("α (dark)", x, PySlice(Val(c.alpha_dark), lo, hi), factor) >>
                  IN IF PySlice(DictValues(Val(c.weighted_jdos_dark_if)), lo, hi) = <<>>
                     THEN out(drawn, Some(ZeroSizeError), Some("α (a.u.)"), Some(<<>>),
                              "raised")
                     ELSE out(drawn, None, Some("α (a.u.)"), Some(<<>>),
                              "alpha_transitions")
     ELSE IF NeedsVaspOutputs(a.yaxis)
     THEN out(<<>>,
              Some(Error("ValueError",
                         <<"The ", a.yaxis, " option for yaxis can only be chosen if the ",
                           "TASGenerator object was created using VASP outputs!">>)),
              Some("ΔA (a.u.)"), None, "raised")
     ELSE LET jdos_diff == IF y = "jdos_diff" /\ c.alpha_dark # None
                           THEN ArrSub(c.jdos_light_total, c.jdos_dark_total)
                           ELSE c.tas_total
          IN out(<< Line("Total TAS (ΔJDOS only)", x, PySlice(jdos_diff, lo, hi), 1) >>,
                 None, Some("ΔA (a.u.)"),
                 Some([n \in 1..Len(c.jdos_diff_if) |->
                         <<c.jdos_diff_if[n][1], Divided(c.jdos_diff_if[n][2], 1)>>]),
                 "transitions")

GetPlot_Total ==
  /\ plot_pc = "total"
  /\ LET r == TotalCurves(container, plot_args, Val(plot_locals))
     IN /\ lines' = lines \o r.lines
        /\ raised' = r.raised
        /\ plot_locals' = Some([Val(plot_locals) EXCEPT
                                  !.abs_label = r.abs_label,
                                  !.transition_dict = r.transition_dict])
        /\ plot_pc' = r.next
  /\ UNCHANGED <<das_vars, vasp_vars, side_calls, container, plot_args>>

\* ---- plotter.py: the curves of the transitions ------------------------------
\* str(transition), for the transition keys drawn
Str(t) ==
  CASE t = <<0, 1>> -> "(0, 1)"
    [] t = <<-1, 1>> -> "(-1, 1)"
    [] OTHER -> "(2, 3)"

\* x in a list
InList(x, list) == \E n \in 1..Len(list) : list[n] = x

\* a dict of arrays as a dict of quotients with divisor 1
Undivided(d) == [n \in 1..Len(d) |-> <<d[n][1], Divided(d[n][2], 1)>>]

\* lines 27-41, on a dict whose arrays share their divisor; cutoff is in
\* hundredths.  The list holds the key of a transition that is kept and None
\* for one that is cut.
cutoff_transitions(dictionary, cutoff, ind_xmin, ind_xmax) ==
  LET max_abs_val == [n \in 1..Len(dictionary) |->
                        MaxAbs(PySlice(dictionary[n][2].values, ind_xmin, ind_xmax))]
      max_val == MaxAbs(max_abs_val)
  IN [n \in 1..Len(dictionary) |->
        IF max_abs_val[n] * 100 >= max_val * cutoff
        THEN Some(dictionary[n][1]) ELSE None]

\* 0.95 ** n, in units of 1 / Unit, each product rounded to the unit
Unit == 100000
RECURSIVE Pow95(_)
Pow95(n) == IF n = 0 THEN Unit ELSE RoundRatio(Pow95(n - 1) * 19, 20)

\* a curve of a list of curves: its values over the divisor the curves of the
\* list share, multiplied by 0.95 scaled times
Curve(values, over, scaled) == [values |-> values, over |-> over, scaled |-> scaled]

\* the positions of a list of curves that hold a curve
NotNone(list_of_curves) == {n \in 1..Len(list_of_curves) : list_of_curves[n] # None}

\* line 215: max_curve (its numerator; the divisor is the shared one)
MaxCurve(list_of_curves) ==
  LET S == {MaxAbs(Val(list_of_curves[n]).values) : n \in NotNone(list_of_curves)}
  IN CHOOSE x \in S : \A y \in S : y <= x

OverOf(list_of_curves) ==
  Val(list_of_curves[CHOOSE n \in NotNone(list_of_curves) : TRUE]).over

\* line 217: np.max(np.abs(curve)) / max_curve > 0.05 (0 / 0 is nan, and
\* nan > 0.05 is false)
Significant(values, max_curve) ==
  max_curve # 0 /\ MaxAbs(values) * 100 > 5 * max_curve

\* argrelextrema(np.abs(curve), np.greater)[0]: the 0-based indices of the
\* points above both neighbours; the first and the last point are compared
\* with themselves and are never above
LocalExtremaIndices(values) ==
  {idx \in 1..(Len(values) - 2) :
     /\ Abs(values[idx + 1]) > Abs(values[idx])
     /\ Abs(values[idx + 1]) > Abs(values[idx + 2])}

\* lines 221-224 and 237-240: (idx, round(np.abs(curve)[idx] / max_curve, 2))
\* of a curve multiplied by 0.95 scaled times; the second entry is in
\* hundredths
RelativeExtrema(values, scaled, max_curve) ==
  { <<idx, RoundRatio(Abs(values[idx + 1]) * Pow95(scaled) * 100, max_curve * Unit)>> :
      idx \in LocalExtremaIndices(values) }

\* lines 226-231: an extremum of the curve is a recorded extremum, both with
\* a second entry that, divided by max_curve, exceeds 0.05
Coinciding(relative_local_extrema, local_extrema_coords, max_curve, over) ==
  \E i \in relative_local_extrema, j \in local_extrema_coords :
    /\ i = j
    /\ i[2] * over > 5 * max_curve
    /\ j[2] * over > 5 * max_curve

\* lines 226-240: how many times the curve is multiplied by 0.95
RECURSIVE Scalings(_, _, _, _, _)
Scalings(values, scaled, local_extrema_coords, max_curve, over) ==
  IF Coinciding(RelativeExtrema(values, scaled, max_curve), local_extrema_coords,
                max_curve, over)
  THEN Scalings(values, scaled + 1, local_extrema_coords, max_curve, over)
  ELSE scaled

\* lines 216-245: the loop over the curves from position pos on
RECURSIVE RescaleFrom(_, _, _, _)
RescaleFrom(list_of_curves, pos, local_extrema_coords, output_list_of_curves) ==
  IF pos > Len(list_of_curves) THEN output_list_of_curves
  ELSE LET max_curve == MaxCurve(list_of_curves)
           over == OverOf(list_of_curves)
       IN IF list_of_curves[pos] = None
          THEN RescaleFrom(list_of_curves, pos + 1, local_extrema_coords,
                           Append(output_list_of_curves, None))
          ELSE LET values == Val(list_of_curves[pos]).values
               IN IF ~Significant(values, max_curve)
                  THEN RescaleFrom(list_of_curves, pos + 1, local_extrema_coords,
                                   Append(output_list_of_curves,
                                          Some(Curve(values, over, 0))))
                  ELSE LET scaled == Scalings(values, 0, local_extrema_coords,
                                              max_curve, over)
                       IN RescaleFrom(list_of_curves, pos + 1,
                                      local_extrema_coords
                                        \cup RelativeExtrema(values, scaled, max_curve),
                                      Append(output_list_of_curves,
                                             Some(Curve(values, over, scaled))))

\* lines 211-247: _rescale_overlapping_curves; np.max of line 215 raises on a
\* list without a curve
rescale_overlapping_curves(list_of_curves) ==
  IF NotNone(list_of_curves) = {}
  THEN [raised |-> Some(ZeroSizeError), curves |-> <<>>]
  ELSE [raised |-> None, curves |-> RescaleFrom(list_of_curves, 1, {}, <<>>)]

\* plt.plot with None for y
PlotNoneError == Error("ValueError", <<"x, y, and format string must not be None">>)
\* list_of_curves[i] past the end of the list
IndexError == Error("IndexError", <<"list index out of range">>)

\* the loops of lines 352-382, 400-430, 472-480, 497-505, 538-560 and 574-596
\* from position pos on: for every transition of the list that is not None
\* its curve is drawn, over factor, and, where dark is a dict, the dark array
\* of the transition if it is not all zero
RECURSIVE CurveLines(_, _, _)
CurveLines(p, pos, drawn) ==
  IF pos > Len(p.list_of_transitions) THEN [lines |-> drawn, raised |-> None]
  ELSE IF p.list_of_transitions[pos] = None THEN CurveLines(p, pos + 1, drawn)
  ELSE IF pos > Len(p.list_of_curves) THEN [lines |-> drawn, raised |-> Some(IndexError)]
  ELSE IF p.list_of_curves[pos] = None
       THEN [lines |-> drawn, raised |-> Some(PlotNoneError)]
  ELSE LET transition == Val(p.list_of_transitions[pos])
           curve == Val(p.list_of_curves[pos])
           light == [ label |-> Str(transition) \o p.suffix,
                      x |-> p.x,
                      y |-> curve.values,
                      over |-> curve.over * p.factor,
                      scaled |-> curve.scaled ]
           dark_array == IF p.dark = None THEN <<>>
                         ELSE PySlice(DictItem(Val(p.dark), transition),
                                      p.xmin_ind, p.xmax_ind)
       IN IF \E m \in 1..Len(dark_array) : dark_array[m] # 0
          THEN CurveLines(p, pos + 1,
                          drawn \o << light,
                                      Line(Str(transition) \o " (dark)", p.x, dark_array,
                                           p.factor) >>)
          ELSE CurveLines(p, pos + 1, Append(drawn, light))

\* the curves of the transitions of a dict: list_of_curves from the keys of
\* curve_dict (the kept ones in "auto" mode, the listed ones otherwise) and
\* the transitions to label from the keys of label_dict
TransitionCurves(curve_dict, label_dict, dark, suffix, factor, a, loc) ==
  LET lo == loc.xmin_ind
      hi == loc.xmax_ind
      sliced(n) == Some(Divided(PySlice(curve_dict[n][2].values, lo, hi),
                                curve_dict[n][2].over))
      relevant_transition_list ==
        cutoff_transitions(curve_dict, a.transition_cutoff, lo, hi)
      list_of_curves ==
        [n \in 1..Len(curve_dict) |->
           IF a.relevant_transitions.auto
           THEN (IF relevant_transition_list[n] # None THEN sliced(n) ELSE None)
           ELSE (IF InList(curve_dict[n][1], a.relevant_transitions.list)
                 THEN sliced(n) ELSE None)]
      list_of_transitions ==
        IF a.relevant_transitions.auto THEN relevant_transition_list
        ELSE [n \in 1..Len(label_dict) |->
                IF InList(label_dict[n][1], a.relevant_transitions.list)
                THEN Some(label_dict[n][1]) ELSE None]
      rescaled == rescale_overlapping_curves(list_of_curves)
  IN IF rescaled.raised # None THEN [lines |-> <<>>, raised |-> rescaled.raised]
     ELSE CurveLines([ list_of_transitions |-> list_of_transitions,
                       list_of_curves |-> rescaled.curves,
                       x |-> PySlice(loc.energy_mesh, lo, hi),
                       suffix |-> suffix,
                       factor |-> factor,
                       dark |-> dark,
                       xmin_ind |-> lo,
                       xmax_ind |-> hi ], 1, <<>>)

\* the step that draws the curves of the transitions
DrawTransitions(r) ==
  /\ lines' = lines \o r.lines
  /\ raised' = r.raised
  /\ plot_pc' = IF r.raised = None THEN "ylabel" ELSE "raised"
  /\ UNCHANGED <<das_vars, vasp_vars, side_calls, container, plot_args, plot_locals>>

\* lines 455-505: yaxis "tas", "tas_absorption_only" or "jdos_diff"; nothing is
\* drawn for an empty transition_dict
GetPlot_Transitions ==
  /\ plot_pc = "transitions"
  /\ LET transition_dict == Val(Val(plot_locals).transition_dict)
     IN IF transition_dict = <<>>
        THEN DrawTransitions([lines |-> <<>>, raised |-> None])
        ELSE DrawTransitions(
               TransitionCurves(transition_dict, container.jdos_light_if, None, "", 1,
                                plot_args, Val(plot_locals)))

\* lines 328-430: yaxis "alpha"
GetPlot_AlphaTransitions ==
  /\ plot_pc = "alpha_transitions"
  /\ LET loc == Val(plot_locals)
         weighted_jdos_light_if == Undivided(Val(container.weighted_jdos_light_if))
         weighted_jdos_normalisation_factor ==
           MaxAbsRows(PySlice(DictValues(Val(container.weighted_jdos_dark_if)),
                              loc.xmin_ind, loc.xmax_ind))
     IN DrawTransitions(
          TransitionCurves(weighted_jdos_light_if, weighted_jdos_light_if,
                           container.weighted_jdos_dark_if, " (light)",
                           weighted_jdos_normalisation_factor, plot_args, loc))

\* lines 526-596: yaxis "jdos"
GetPlot_JdosTransitions ==
  /\ plot_pc = "jdos_transitions"
  /\ DrawTransitions(
       TransitionCurves(Undivided(container.jdos_light_if),
                        Undivided(container.jdos_light_if),
                        Some(container.jdos_dark_if), " (light)", 1,
                        plot_args, Val(plot_locals)))

\* get_plot up to the curves of the transitions; the axis labels, limits and
\* legend (lines 598-686) come after
NextPlot ==
  \/ GetPlot_Begin
  \/ GetPlot_Total
  \/ GetPlot_Transitions
  \/ GetPlot_AlphaTransitions
  \/ GetPlot_JdosTransitions

SpecPlot == InitPlot /\ [][NextPlot]_vars

\* ---- internalAs.internal_from_vasp ----------------------------------------------
\* vr.incar.get(key, default)
IncarGet(incar, key, default) == IF key \in DOMAIN incar THEN incar[key] ELSE default

\* the INCAR tags of the vasprun files drawn: LVEL absent, .TRUE. or .FALSE.,
\* ISYM absent or one of VASP's values
Incars ==
  { [key \in (IF lvel = None THEN {} ELSE {"LVEL"}) \cup (IF isym = None THEN {} ELSE {"ISYM"}) |->
       IF key = "LVEL" THEN Val(lvel) ELSE Val(isym)] :
      lvel \in {None, Some(TRUE), Some(FALSE)},
      isym \in {None} \cup {Some(n) : n \in (-1)..3} }

\* what Vasprun(vasprun_file) gives: the INCAR, get_band_structure() and
\* actual_kpoints_weights
Vaspruns ==
  { [incar |-> incar, band_structure |-> BandStructure(ns, nb, metal),
     actual_kpoints_weights |-> KpointWeights] :
      incar \in Incars, ns \in 1..2, nb \in 2..MaxBands, metal \in BOOLEAN }

\* the waveder_file arguments drawn: None (the default), an empty path, a path
WavederFiles == {None, Some(""), Some("WAVEDER")}

\* line 71: the truth value of waveder_file (None and the empty string are false)
WavederGiven(waveder_file) == waveder_file # None /\ Val(waveder_file) # ""

\* line 74
LvelMissing(incar) == ~IncarGet(incar, "LVEL", FALSE)

\* a variant of NeedsIsymInstruction that takes a missing ISYM for 0
NeedsIsymInstructionDefaultZero(incar) == IncarGet(incar, "ISYM", 0) \notin {-1, 0}

\* line 81
NeedsIsymInstruction(incar) == IncarGet(incar, "ISYM", 2) \notin {-1, 0}

\* lines 75-80 and 82
lvel_error_message ==
  "LVEL must be set to True in the INCAR for the VASP optics calculation to output the full band-band orbital derivatives and thus allow PyTASer to parse the WAVEDER and compute oscillator strengths. Please rerun the VASP calculation with LVEL=True (if you use the WAVECAR from the previous calculation this should only require 1 or 2 electronic steps!"
isym_error_message == "ISYM must be set to 0 and "

InitVasp ==
  /\ referenceSystem = SmallestSystem
  /\ newSystem = SmallestSystem
  /\ args = ArgsOf(0, <<0, 5, 2>>, None, None)
  /\ pc = "not_called"
  /\ Idle
  /\ NoPlotCall
  /\ \E vr \in Vaspruns, waveder_file \in WavederFiles :
       vasp_args = [vasprun_file |-> vr, waveder_file |-> waveder_file]
  /\ vasp_pc = "internal_from_vasp"
  /\ vasp_locals = None
  /\ vasp_ret = None
  /\ NoSideCall
  /\ raised = None

\* lines 65-69: the vasprun file is parsed
Vasp_Parse ==
  /\ vasp_pc = "internal_from_vasp"
  /\ vasp_locals' = Some([vr |-> vasp_args.vasprun_file, waveder |-> None, dfc |-> None])
  /\ calls' = Append(calls, [fn |-> "Vasprun"])
  /\ vasp_pc' = "if_waveder_file"
  /\ UNCHANGED <<plot_vars, side_calls, inputs, pc, das_locals, self, as_locals, ret, das,
                 vasp_args, vasp_ret, raised>>

\* lines 71-90: with a WAVEDER file, it is parsed, LVEL is checked and the
\* dielectric function calculator is built; without one dfc is None
Vasp_Waveder ==
  /\ vasp_pc = "if_waveder_file"
  /\ LET vr == Val(vasp_locals).vr
     IN IF WavederGiven(vasp_args.waveder_file)
        THEN IF LvelMissing(vr.incar)
             THEN /\ raised' = Some(Error("ValueError",
                        IF NeedsIsymInstruction(vr.incar)
                        THEN <<isym_error_message, lvel_error_message>>
                        ELSE <<lvel_error_message>>))
                  /\ vasp_locals' = Some([Val(vasp_locals) EXCEPT !.waveder = Some("waveder")])
                  /\ calls' = Append(calls, [fn |-> "Waveder.from_binary"])
                  /\ vasp_pc' = "raised"
             ELSE /\ vasp_locals' =
                       Some([Val(vasp_locals) EXCEPT
                               !.waveder = Some("waveder"),
                               !.dfc = Some(Dfc(vr.band_structure, vr.actual_kpoints_weights))])
                  /\ calls' = calls \o <<[fn |-> "Waveder.from_binary"],
                                         [fn |-> "DielectricFunctionCalculator.from_vasp_objects"]>>
                  /\ vasp_pc' = "return"
                  /\ UNCHANGED raised
        ELSE /\ vasp_locals' = Some([Val(vasp_locals) EXCEPT !.dfc = None])
             /\ vasp_pc' = "return"
             /\ UNCHANGED <<calls, raised>>
  /\ UNCHANGED <<plot_vars, side_calls, inputs, pc, das_locals, self, as_locals, ret, das,
                 vasp_args, vasp_ret>>

\* lines 92-97: the internalAs object is built and returned
Vasp_Return ==
  /\ vasp_pc = "return"
  /\ LET vr == Val(vasp_locals).vr
     IN vasp_ret' = Some(InternalAs(vr.band_structure, vr.actual_kpoints_weights,
                                    Val(vasp_locals).dfc))
  /\ calls' = Append(calls, [fn |-> "internalAs.__init__"])
  /\ vasp_pc' = "returned"
  /\ UNCHANGED <<plot_vars, side_calls, inputs, pc, das_locals, self, as_locals, ret, das,
                 vasp_args, vasp_locals, raised>>

NextVasp ==
  \/ Vasp_Parse
  \/ Vasp_Waveder
  \/ Vasp_Return

SpecVasp == InitVasp /\ [][NextVasp]_vars

\* ---- _rescale_overlapping_curves, statement by statement -----------------------
\* the curves drawn for a call: flat, one peak, the same peak upside down, a
\* lower peak at the same place, and a small and a high peak
CurveShapes ==
  { <<0, 0, 0, 0, 0>>, <<0, 20, 0, 0, 0>>, <<0, -20, 0, 4, 0>>, <<0, 19, 0, 1, 0>>,
    <<0, 1, 0, 50, 0>> }

MaxCurves == 3

\* the divisors the values of a list are over: curves as they are, and curves
\* normalised to at most 0.5 or 0.05
CurveDivisors == {1, 100, 1000}

RECURSIVE ListsUpTo(_, _)
ListsUpTo(S, n) ==
  IF n = 0 THEN {<<>>}
  ELSE ListsUpTo(S, n - 1)
         \cup {Append(l, x) : l \in {m \in ListsUpTo(S, n - 1) : Len(m) = n - 1}, x \in S}

CurveLists ==
  UNION { ListsUpTo({None} \cup {Some(Divided(values, over)) : values \in CurveShapes},
                    MaxCurves) : over \in CurveDivisors }

InitRescale ==
  /\ referenceSystem = SmallestSystem
  /\ newSystem = SmallestSystem
  /\ args = ArgsOf(0, <<0, 5, 2>>, None, None)
  /\ pc = "not_called"
  /\ Idle
  /\ NoPlotCall
  /\ NoVaspCall
  /\ first_call = None
  /\ mpid_call = None
  /\ \E list_of_curves \in CurveLists :
       rescale = [ pc |-> "max_curve",
                   list_of_curves |-> list_of_curves,
                   pos |-> 1,
                   scaled |-> 0,
                   local_extrema_coords |-> {},
                   output_list_of_curves |-> <<>> ]
  /\ raised = None

RescaleFrame == UNCHANGED <<das_vars, plot_vars, vasp_vars, first_call, mpid_call>>

\* line 215: np.max over the maxima of the curves; it raises for an empty
\* sequence
Rescale_MaxCurve ==
  /\ rescale.pc = "max_curve"
  /\ IF NotNone(rescale.list_of_curves) = {}
     THEN /\ raised' = Some(ZeroSizeError)
          /\ rescale' = [rescale EXCEPT !.pc = "raised"]
     ELSE /\ raised' = raised
          /\ rescale' = [rescale EXCEPT !.pc = "for_curve"]
  /\ RescaleFrame

\* lines 216-217 and 245: a None or a curve below 5% of the highest is
\* appended as it is
Rescale_Append ==
  /\ rescale.pc = "for_curve"
  /\ rescale.pos <= Len(rescale.list_of_curves)
  /\ LET curve == rescale.list_of_curves[rescale.pos]
     IN /\ IF curve = None THEN TRUE
           ELSE ~Significant(Val(curve).values, MaxCurve(rescale.list_of_curves))
        /\ rescale' = [rescale EXCEPT
                         !.output_list_of_curves =
                           Append(@, IF curve = None THEN None
                                     ELSE Some(Curve(Val(curve).values, Val(curve).over, 0))),
                         !.pos = @ + 1]
  /\ UNCHANGED raised
  /\ RescaleFrame

\* lines 216-224: the extrema of a curve above 5% of the highest
Rescale_Extrema ==
  /\ rescale.pc = "for_curve"
  /\ rescale.pos <= Len(rescale.list_of_curves)
  /\ LET curve == rescale.list_of_curves[rescale.pos]
     IN /\ curve # None
        /\ Significant(Val(curve).values, MaxCurve(rescale.list_of_curves))
  /\ rescale' = [rescale EXCEPT !.pc = "while", !.scaled = 0]
  /\ UNCHANGED raised
  /\ RescaleFrame

\* the test of the while loop of lines 226-231 for the curve at pos
StillCoinciding ==
  LET max_curve == MaxCurve(rescale.list_of_curves)
      values == Val(rescale.list_of_curves[rescale.pos]).values
  IN Coinciding(RelativeExtrema(values, rescale.scaled, max_curve),
                rescale.local_extrema_coords, max_curve,
                OverOf(rescale.list_of_curves))

\* the most multiplications by 0.95 one curve is given here
MaxScalings == 40

\* lines 226-240: one pass of the while loop
Rescale_Scale ==
  /\ rescale.pc = "while"
  /\ StillCoinciding
  /\ rescale.scaled < MaxScalings
  /\ rescale' = [rescale EXCEPT !.scaled = @ + 1]
  /\ UNCHANGED raised
  /\ RescaleFrame

\* lines 242-245: the while loop is left, the extrema are recorded and the
\* curve is appended
Rescale_Record ==
  /\ rescale.pc = "while"
  /\ ~StillCoinciding
  /\ LET curve == Val(rescale.list_of_curves[rescale.pos])
     IN rescale' = [rescale EXCEPT
                      !.local_extrema_coords =
                        @ \cup RelativeExtrema(curve.values, rescale.scaled,
                                               MaxCurve(rescale.list_of_curves)),
                      !.output_list_of_curves =
                        Append(@, Some(Curve(curve.values, curve.over, rescale.scaled))),
                      !.pos = @ + 1,
                      !.pc = "for_curve"]
  /\ UNCHANGED raised
  /\ RescaleFrame

\* line 247
Rescale_Return ==
  /\ rescale.pc = "for_curve"
  /\ rescale.pos > Len(rescale.list_of_curves)
  /\ rescale' = [rescale EXCEPT !.pc = "returned"]
  /\ UNCHANGED raised
  /\ RescaleFrame

NextRescale ==
  \/ Rescale_MaxCurve
  \/ Rescale_Append
  \/ Rescale_Extrema
  \/ Rescale_Scale
  \/ Rescale_Record
  \/ Rescale_Return

\* the statement the function is at: its position, the index of the curve and
\* the number of passes of the while loop
rescale_control == <<rescale.pc, rescale.pos, rescale.scaled>>

RescaleOver == rescale.pc \in {"returned", "raised"}

\* the interpreter executes the statement the function is at: control moves on
RescaleRuns ==
  /\ ~RescaleOver
  /\ rescale' \in [ pc : {"max_curve", "for_curve", "while", "returned", "raised"},
                    pos : 1..(MaxCurves + 1),
                    scaled : 0..MaxScalings,
                    list_of_curves : {rescale.list_of_curves},
                    local_extrema_coords : {rescale.local_extrema_coords},
                    output_list_of_curves : {rescale.output_list_of_curves} ]

\* the function runs in the caller's thread: nothing but its return or an
\* exception stops it, so control moves on as long as it is not over
SpecRescale == InitRescale /\ [][NextRescale]_vars /\ WF_rescale_control(RescaleRuns)

\* ---- DASGenerator.from_mpid (dasgenerator.py) and internal_from_mpid --------------
Mpids == {"mp-new", "mp-ref"}

\* the band structure the Materials Project stores for a material id
\* (mpr.get_bandstructure_by_material_id)
MaterialsProject(mpid) ==
  IF mpid = "mp-new" THEN BandStructure(1, 2, FALSE) ELSE BandStructure(2, 3, FALSE)

\* MPRester() and MPRester(api_key=api_key)
MPRester(api_key) == [api_key |-> api_key]

OwnMPRester == MPRester(Some("own key"))

\* generator.set_bandgap: the band gap becomes bg, the conduction bands move
\* rigidly
set_bandgap(bs, bg) ==
  [bs EXCEPT !.bands = [s \in DOMAIN bs.bands |-> [b \in DOMAIN bs.bands[s] |->
                          [k \in Kpoints |->
                             IF b > bs.vb_index[s]
                             THEN bs.bands[s][b][k] + (bg - bs.band_gap)
                             ELSE bs.bands[s][b][k]]]],
             !.cbm = bs.vbm + bg,
             !.band_gap = bg]

\* the body of internalAs.internal_from_mpid: the rester used and the system
\* built
internal_from_mpid(mpid, bg, api_key, mpr) ==
  LET rester == IF mpr = None
                THEN (IF api_key = None THEN MPRester(None) ELSE MPRester(api_key))
                ELSE Val(mpr)
      mp_bs == IF bg # None THEN set_bandgap(MaterialsProject(mpid), Val(bg))
               ELSE MaterialsProject(mpid)
  IN [mpr |-> rester, system |-> InternalAs(mp_bs, KpointWeights, None)]

\* the parameters of internal_from_mpid after cls
MpidParameters == <<"mpid", "bg", "api_key", "mpr">>

\* a call internal_from_mpid(*positional, **keywords): Python binds the
\* arguments to the parameters and raises TypeError for a keyword that names no
\* parameter; keywords is a sequence of <<name, value>>
Call_internal_from_mpid(positional, keywords) ==
  LET names == {MpidParameters[j] : j \in 1..Len(MpidParameters)}
      unexpected == {n \in 1..Len(keywords) : keywords[n][1] \notin names}
      Bound(j) ==
        IF j <= Len(positional) THEN positional[j]
        ELSE LET given == {n \in 1..Len(keywords) : keywords[n][1] = MpidParameters[j]}
             IN IF given = {} THEN None ELSE keywords[CHOOSE n \in given : TRUE][2]
  IN IF unexpected # {}
     THEN [raised |-> Some(Error("TypeError",
                        "internal_from_mpid() got an unexpected keyword argument '"
                        \o keywords[CHOOSE n \in unexpected : TRUE][1] \o "'")),
           result |-> None]
     ELSE [raised |-> None,
           result |-> Some(internal_from_mpid(Bound(1), Bound(2), Bound(3), Bound(4)))]

InitMpid ==
  /\ referenceSystem = SmallestSystem
  /\ newSystem = SmallestSystem
  /\ args = ArgsOf(0, <<0, 5, 2>>, None, None)
  /\ pc = "not_called"
  /\ Idle
  /\ NoPlotCall
  /\ NoVaspCall
  /\ first_call = None
  /\ rescale = None
  /\ \E mpid \in Mpids, mpid_ref \in Mpids, bg \in {None, Some(4)},
        bg_ref \in {None, Some(4)}, api_key \in {None, Some("key")},
        mpr \in {None, Some(OwnMPRester)}, mpr_ref \in {None, Some(OwnMPRester)} :
       mpid_call = [ pc |-> "newSystem",
                     args |-> [mpid |-> mpid, mpid_ref |-> mpid_ref, bg |-> bg,
                               bg_ref |-> bg_ref, api_key |-> api_key, mpr |-> mpr,
                               mpr_ref |-> mpr_ref],
                     newSystem |-> None,
                     referenceSystem |-> None ]
  /\ raised = None

\* lines 105-107: internal_from_mpid(mpid, bg=None, api_key=None, mpr=None)
FromMpid_NewSystem ==
  /\ mpid_call.pc = "newSystem"
  /\ LET call == Call_internal_from_mpid(<<mpid_call.args.mpid>>,
                   << <<"bg", None>>, <<"api_key", None>>, <<"mpr", None>> >>)
     IN /\ mpid_call' = [mpid_call EXCEPT
                           !.newSystem = call.result,
                           !.pc = IF call.raised # None THEN "raised"
                                  ELSE "referenceSystem"]
        /\ raised' = call.raised
  /\ UNCHANGED <<das_vars, plot_vars, vasp_vars, first_call, rescale>>

\* lines 108-111: internal_from_mpid(mpid_ref, bg_ref, api_key=None,
\* mpr_ref=None), then return cls(newSystem, referenceSystem)
FromMpid_ReferenceSystem ==
  /\ mpid_call.pc = "referenceSystem"
  /\ LET call == Call_internal_from_mpid(<<mpid_call.args.mpid_ref, mpid_call.args.bg_ref>>,
                   << <<"api_key", None>>, <<"mpr_ref", None>> >>)
     IN /\ mpid_call' = [mpid_call EXCEPT
                           !.referenceSystem = call.result,
                           !.pc = IF call.raised # None THEN "raised" ELSE "returned"]
        /\ raised' = call.raised
  /\ UNCHANGED <<das_vars, plot_vars, vasp_vars, first_call, rescale>>

NextMpid ==
  \/ FromMpid_NewSystem
  \/ FromMpid_ReferenceSystem

SpecMpid == InitMpid /\ [][NextMpid]_vars

\* ---- properties -----------------------------------------------------------------
\* a generate_As call is between its first lines and its return
InAs == pc \in {"for_spin", "for_i_f"}

\* the occupancies of the running call come from band_occupancies
OccsComputed == InAs /\ CallArgs(self).occs = None

Returned == {w \in {"ref", "new"} : ret[w] # None}

BandIndices(sys, spin) == DOMAIN sys.bs.bands[spin]
SpinsOf(sys) == DOMAIN sys.bs.bands

\* C1: after generate_As returns, at every mesh point the per-transition JDOS
\* arrays of the returned dict add up to the returned total JDOS.
C1_TransitionsSumToTotal ==
  \A w \in Returned :
    LET r == Val(ret[w])
    IN \A m \in 1..Len(r.jdos_dark_total) :
         DictSumAt(r.jdos_dark_if, DOMAIN r.jdos_dark_if, m) = r.jdos_dark_total[m]

\* a spin-polarized system has returned a total JDOS that is not zero
C1_Witness ==
  /\ ret.new # None
  /\ newSystem.bs.is_spin_polarized
  /\ Cardinality(DOMAIN Val(ret.new).jdos_dark_if) >= 2
  /\ \E m \in 1..Len(Val(ret.new).jdos_dark_total) : Val(ret.new).jdos_dark_total[m] > 0

\* the (spin, i, f) of the unweighted jdos evaluations of a call
EvaluatedPairs(w) ==
  { <<calls[n].spin, calls[n].i, calls[n].f>> :
      n \in {j \in 1..Len(calls) : /\ calls[j].fn = "jdos"
                                   /\ calls[j].self = w
                                   /\ ~calls[j].weighted} }

\* C2: generate_As evaluates and stores the pair (i, f) of a spin exactly when
\* f > i: no self-pair and no reversed pair is evaluated or stored as a key,
\* and every pair with f > i is.
C2_PairsWithFAboveI ==
  \A w \in Returned :
    LET sys == System(w)
        d == Val(ret[w]).jdos_dark_if
    IN /\ EvaluatedPairs(w) =
            { <<s, i, f>> \in SpinsOf(sys) \X (0..(MaxBands - 1)) \X (0..(MaxBands - 1)) :
                i \in BandIndices(sys, s) /\ f \in BandIndices(sys, s) /\ f > i }
       /\ \A key \in DOMAIN d : key[2] > key[1]
       /\ \A s \in SpinsOf(sys) : \A i, f \in BandIndices(sys, s) :
            (f > i) => TransitionKey(sys, s, i, f) \in DOMAIN d

\* a call on a system of three bands has returned
C2_Witness ==
  /\ ret.ref # None
  /\ NumBands(referenceSystem, SpinUp) = 3
  /\ Cardinality(EvaluatedPairs("ref")) >= 3

\* C3: for a non-metal, band_occupancies gives 1 below the gap centre and 0
\* above it, nothing but 0 and 1, whatever the temperature.
C3_StepOccupancies ==
  (OccsComputed /\ ~System(self).bs.is_metal) =>
    LET sys == System(self)
    IN /\ \A s \in SpinsOf(sys) : \A b \in BandIndices(sys, s) : \A k \in Kpoints :
            LET E == sys.bs.bands[s][b][k]
                o == Val(occs)[s][b][k]
            IN /\ o \in {0, OccOne}
               /\ (E < sys.bg_centre) => (o = OccOne)
               /\ (E > sys.bg_centre) => (o = 0)
       /\ \A t \in 0..MaxTemp : band_occupancies(sys, t) = Val(occs)

\* a non-metal at a temperature above 0 with filled and empty states
C3_Witness ==
  /\ OccsComputed
  /\ ~System(self).bs.is_metal
  /\ args.temp > 0
  /\ \E b1, b2 \in BandIndices(System(self), SpinUp) :
       /\ Val(occs)[SpinUp][b1][0] = OccOne
       /\ Val(occs)[SpinUp][b2][0] = 0

\* C4: a band energy equal to bg_centre is in neither mask and has occupancy
\* 0, for metals and non-metals.
C4_ReferenceEnergyUnoccupied ==
  OccsComputed =>
    LET sys == System(self)
    IN \A s \in SpinsOf(sys) : \A b \in BandIndices(sys, s) : \A k \in Kpoints :
         LET E == sys.bs.bands[s][b][k]
         IN (E = sys.bg_centre) =>
              /\ ~hole_mask(E, sys.bg_centre)
              /\ ~elec_mask(E, sys.bg_centre)
              /\ Val(occs)[s][b][k] = 0

\* a metal with a state exactly at the Fermi level, at a temperature above 0
C4_Witness ==
  /\ OccsComputed
  /\ System(self).bs.is_metal
  /\ args.temp > 0
  /\ \E b \in BandIndices(System(self), SpinUp) : \E k \in Kpoints :
       System(self).bs.bands[SpinUp][b][k] = System(self).bg_centre

\* the mesh of the claim: ceil((max - min) / step) points from min, step apart,
\* the last one below max
HalfOpenMesh(mesh, lo, hi, st) ==
  /\ Len(mesh) = CeilRatio(hi - lo, st)
  /\ mesh[1] = lo
  /\ \A m \in 1..(Len(mesh) - 1) : mesh[m + 1] - mesh[m] = st
  /\ mesh[Len(mesh)] < hi

\* C5: for energy_min < energy_max and step > 0 the mesh of generate_das and
\* of generate_As has ceil((energy_max - energy_min) / step) points, starts at
\* energy_min, has consecutive points step apart and ends below energy_max.
C5_MeshIsHalfOpenRange ==
  (args.energy_min < args.energy_max /\ args.step > 0) =>
    /\ (das_locals # None) =>
         HalfOpenMesh(Val(das_locals).energy_mesh_ev,
                      args.energy_min, args.energy_max, args.step)
    /\ InAs =>
         HalfOpenMesh(energy_mesh_ev, args.energy_min, args.energy_max, args.step)

\* an array with one value per mesh point
OnMesh(array, n) == Len(array) = n

\* C6: in one generate_das result every spectrum has as many points as the
\* energy_mesh_ev of the result: das_total, both total JDOS arrays, every
\* per-transition array, every weighted per-transition array and both alpha
\* arrays when present, for the new and for the reference system.
C6_AllSpectraOnOneMesh ==
  (pc = "done") =>
    LET d == Val(das)
        n == Len(d.energy_mesh_ev)
    IN /\ OnMesh(d.das_total, n)
       /\ OnMesh(d.jdos_newSys_total, n)
       /\ OnMesh(d.jdos_ref_total, n)
       /\ \A key \in DOMAIN d.jdos_newSys_if : OnMesh(d.jdos_newSys_if[key], n)
       /\ \A key \in DOMAIN d.jdos_ref_if : OnMesh(d.jdos_ref_if[key], n)
       /\ (d.alpha_newSys # None) => OnMesh(Val(d.alpha_newSys), n)
       /\ (d.alpha_ref # None) => OnMesh(Val(d.alpha_ref), n)
       /\ (d.weighted_jdos_newSys_if # None) =>
            \A key \in DOMAIN Val(d.weighted_jdos_newSys_if) :
               OnMesh(Val(d.weighted_jdos_newSys_if)[key], n)
       /\ (d.weighted_jdos_ref_if # None) =>
            \A key \in DOMAIN Val(d.weighted_jdos_ref_if) :
               OnMesh(Val(d.weighted_jdos_ref_if)[key], n)

\* a result with dielectric data on both sides whose mesh and dielectric grid
\* differ in length
C6_Witness ==
  /\ pc = "done"
  /\ Val(das).alpha_newSys # None
  /\ Val(das).alpha_ref # None
  /\ Len(Val(das).energy_mesh_ev) # Val(newSystem.dfc).nedos
  /\ Len(Val(das).energy_mesh_ev) >= 2

BothHaveDfc == referenceSystem.dfc # None /\ newSystem.dfc # None

\* C7: with dielectric data on both systems, das_total is alpha of the new
\* system minus alpha of the reference system at every mesh point, not the
\* JDOS difference.
C7_AlphaDifference ==
  (pc = "done" /\ BothHaveDfc) =>
    Val(das).das_total =
      ArrSub(Val(Val(ret.new).alpha_dark), Val(Val(ret.ref).alpha_dark))

\* both systems carry dielectric data and the alpha difference is neither zero
\* nor the JDOS difference
C7_Witness ==
  /\ pc = "done"
  /\ BothHaveDfc
  /\ Val(das).das_total #
       ArrSub(Val(ret.new).jdos_dark_total, Val(ret.ref).jdos_dark_total)
  /\ \E m \in 1..Len(Val(das).das_total) : Val(das).das_total[m] # 0

\* C8: with dielectric data missing on either side, das_total is the JDOS of
\* the new system minus the JDOS of the reference system at every mesh point;
\* the alpha of the side that has one does not enter.
C8_JdosFallback ==
  (pc = "done" /\ ~BothHaveDfc) =>
    Val(das).das_total =
      ArrSub(Val(ret.new).jdos_dark_total, Val(ret.ref).jdos_dark_total)

\* only the new system carries dielectric data, its alpha is not its JDOS, and
\* the JDOS difference is not zero
C8_Witness ==
  /\ pc = "done"
  /\ newSystem.dfc # None
  /\ referenceSystem.dfc = None
  /\ Val(Val(ret.new).alpha_dark) # Val(ret.new).jdos_dark_total
  /\ \E m \in 1..Len(Val(das).das_total) : Val(das).das_total[m] # 0

\* C9: a system differenced against itself with the same occupancies (or none)
\* for both gives das_total 0 at every mesh point, on the alpha path and on
\* the JDOS path.
C9_SelfDifferenceIsZero ==
  (pc = "done" /\ newSystem = referenceSystem /\ args.newSys_occs = args.ref_occs) =>
    \A m \in 1..Len(Val(das).das_total) : Val(das).das_total[m] = 0

\* a system with dielectric data differenced against itself under an occupancy
\* override, with a JDOS and an alpha that are not zero
C9_Witness ==
  /\ pc = "done"
  /\ newSystem = referenceSystem
  /\ args.newSys_occs = args.ref_occs
  /\ args.ref_occs # None
  /\ newSystem.dfc # None
  /\ \E m \in 1..Len(Val(das).das_total) :
       /\ Val(Val(ret.new).alpha_dark)[m] # 0
       /\ Val(ret.new).jdos_dark_total[m] # 0

\* the per-transition weighted difference of the generate_das docstring: new
\* system minus reference system, for the keys the two weighted dicts share
WeightedJdosDiff(weighted_new, weighted_ref) ==
  [key \in (DOMAIN weighted_new) \cap (DOMAIN weighted_ref) |->
     ArrSub(weighted_new[key], weighted_ref[key])]

\* C10: generate_das returns the per-transition weighted differences
\* (weighted_jdos_diff_if), new system minus reference system key by key, over
\* exactly the keys present in both systems' weighted dicts.
C10_WeightedDifferenceReturned ==
  (pc = "done" /\ BothHaveDfc) =>
    LET d == Val(das)
        diff == WeightedJdosDiff(Val(Val(ret.new).weighted_jdos_dark_if),
                                 Val(Val(ret.ref).weighted_jdos_dark_if))
    IN \/ Val(d.weighted_jdos_newSys_if) = diff
       \/ Val(d.weighted_jdos_ref_if) = diff
       \/ d.jdos_newSys_if = diff
       \/ d.jdos_ref_if = diff

\* the keys generate_As stores for a system
KeysOf(sys) ==
  UNION { { TransitionKey(sys, s, i, f) :
              <<i, f>> \in { p \in BandIndices(sys, s) \X BandIndices(sys, s) :
                               Enumerated(p[1], p[2]) } } :
          s \in SpinsOf(sys) }

\* d.get(key, zeros)[m]
DictGetAt(d, key, m) == IF key \in DOMAIN d THEN d[key][m] ELSE 0

\* the sum over keys of new.get(key, 0) - ref.get(key, 0) at mesh point m
RECURSIVE KeyedDifferenceAt(_, _, _, _)
KeyedDifferenceAt(d_new, d_ref, keys, m) ==
  IF keys = {} THEN 0
  ELSE LET key == CHOOSE x \in keys : TRUE
       IN DictGetAt(d_new, key, m) - DictGetAt(d_ref, key, m)
          + KeyedDifferenceAt(d_new, d_ref, keys \ {key}, m)

\* the operands of the next step of the call are there: no lookup of a missing
\* dict key or array index and no arithmetic on arrays of unequal length, the
\* operations on which Python or numpy would raise
StepDefined ==
  LET sys == System(self)
  IN CASE pc \in {"generate_das", "generate_As"} -> args.step # 0
       [] pc = "for_spin" ->
            (loop.spin_pos <= Len(sys.bs.spin_order)) =>
               /\ CurrentSpin \in DOMAIN Val(occs)
               /\ (sys.dfc # None) => (alpha_dark # None)
       [] pc = "for_i_f" ->
            /\ CurrentSpin \in DOMAIN Val(occs)
            /\ CurrentSpin \in DOMAIN sys.vb
            /\ {loop.i, loop.f} \subseteq BandIndices(sys, CurrentSpin)
            /\ (sys.dfc # None) => (tdm_array # None)
       [] pc = "difference" ->
            /\ ret.new # None /\ ret.ref # None
            /\ Len(Val(ret.new).jdos_dark_total) = Len(Val(ret.ref).jdos_dark_total)
            /\ BothHaveDfc =>
                 Len(Val(Val(ret.new).alpha_dark)) = Len(Val(Val(ret.ref).alpha_dark))
       [] OTHER -> pc = "done"

\* C11: when the two systems store different sets of transition keys,
\* generate_das raises nothing: every step of the call has its operands, the
\* call returns a Das holding each system's own keys, and on the JDOS path
\* das_total is, at every mesh point, the sum over the keys of either system
\* of new minus reference with an absent key counted as zero.
C11_DifferingKeySetsReturn ==
  (KeysOf(newSystem) # KeysOf(referenceSystem)) =>
    /\ StepDefined
    /\ (pc = "done") =>
         /\ das # None
         /\ DOMAIN Val(das).jdos_newSys_if = KeysOf(newSystem)
         /\ DOMAIN Val(das).jdos_ref_if = KeysOf(referenceSystem)
         /\ ~BothHaveDfc =>
              \A m \in 1..Len(Val(das).das_total) :
                Val(das).das_total[m] =
                  KeyedDifferenceAt(Val(das).jdos_newSys_if, Val(das).jdos_ref_if,
                                    (DOMAIN Val(das).jdos_newSys_if)
                                      \cup (DOMAIN Val(das).jdos_ref_if), m)

\* a result on the JDOS path where the new system has a key the reference
\* system lacks, with a JDOS that is not zero under that key
C11_Witness ==
  /\ pc = "done"
  /\ ~BothHaveDfc
  /\ \E key \in (DOMAIN Val(das).jdos_newSys_if) \ (DOMAIN Val(das).jdos_ref_if) :
       \E m \in 1..Len(Val(das).das_total) : Val(das).jdos_newSys_if[key][m] # 0
  /\ \E key \in (DOMAIN Val(das).jdos_ref_if) \ (DOMAIN Val(das).jdos_newSys_if) :
       \E m \in 1..Len(Val(das).das_total) : Val(das).jdos_ref_if[key][m] # 0

\* get_plot is past the curves of the totals
TotalsDrawn ==
  plot_pc \in {"transitions", "alpha_transitions", "jdos_transitions", "ylabel",
               "raised"}
    /\ plot_locals # None

\* C12: get_plot with yaxis "alpha" or "tas_absorption_only", in any letter
\* case, on a container without dielectric data (alpha_light_dict is None)
\* raises a ValueError saying that the option needs VASP outputs, and draws no
\* line at any point of the call.
C12_AlphaWithoutDielectricDataRaises ==
  (/\ plot_pc # "not_called"
   /\ container.alpha_light_dict = None
   /\ Lower(plot_args.yaxis) \in {"alpha", "tas_absorption_only"}) =>
     /\ lines = <<>>
     /\ plot_pc \in {"get_plot", "total", "raised"}
     /\ (plot_pc = "raised") =>
          /\ raised # None
          /\ Val(raised).type = "ValueError"
          /\ Val(raised).message =
               <<"The ", plot_args.yaxis, " option for yaxis can only be chosen if the ",
                 "TASGenerator object was created using VASP outputs!">>

\* the call has raised for an upper-case "ALPHA" on a container without
\* dielectric data
C12_Witness ==
  /\ plot_pc = "raised"
  /\ plot_args.yaxis = "ALPHA"
  /\ container.alpha_light_dict = None
  /\ raised # None

\* the labels of the total difference curve
JdosOnlyLabel == "Total TAS (ΔJDOS only)"
AlphaLabel == "Total TAS (Δα)"

\* the part of an array that get_plot draws
Drawn(array) ==
  PySlice(array, Val(plot_locals).xmin_ind, Val(plot_locals).xmax_ind)

\* the alpha differences of a container with dielectric data: with and
\* without the stimulated emission
AlphaDifferences(c) ==
  IF c.alpha_light_dict = None THEN {}
  ELSE { ArrSub(ArrSub(Val(c.alpha_light_dict).absorption,
                       Val(c.alpha_light_dict).emission), Val(c.alpha_dark)),
         ArrSub(Val(c.alpha_light_dict).absorption, Val(c.alpha_dark)) }

\* C13: the total difference curve of get_plot is labelled by the path that
\* produced it: a curve labelled "Total TAS (ΔJDOS only)" is the JDOS under
\* light minus the JDOS in the dark, a curve labelled "Total TAS (Δα)" is drawn
\* only with dielectric data and is an alpha difference, and without
\* dielectric data or with yaxis "jdos_diff" the total drawn carries the
\* JDOS-only label and no curve carries the alpha label.
C13_TotalLabelledByPath ==
  TotalsDrawn =>
    LET c == container
        y == Lower(plot_args.yaxis)
        labels == {lines[n].label : n \in 1..Len(lines)}
    IN /\ \A n \in 1..Len(lines) :
            /\ (lines[n].label = JdosOnlyLabel) =>
                 /\ lines[n].y = Drawn(ArrSub(c.jdos_light_total, c.jdos_dark_total))
                 /\ lines[n].over = 1
            /\ (lines[n].label = AlphaLabel) =>
                 /\ c.alpha_light_dict # None
                 /\ y # "jdos_diff"
                 /\ \E d \in AlphaDifferences(c) :
                      /\ lines[n].y = Drawn(d)
                      /\ lines[n].over = MaxAbs(Drawn(d))
       /\ (/\ plot_pc # "raised"
           /\ y \in {"tas", "tas_absorption_only", "jdos_diff"}
           /\ (c.alpha_light_dict = None \/ y = "jdos_diff")) =>
            /\ JdosOnlyLabel \in labels
            /\ AlphaLabel \notin labels

\* yaxis "jdos_diff" on a container with dielectric data: the total drawn is
\* the JDOS difference, which is none of the alpha differences
C13_Witness ==
  /\ plot_pc = "transitions"
  /\ Lower(plot_args.yaxis) = "jdos_diff"
  /\ container.alpha_light_dict # None
  /\ Len(lines) = 1
  /\ lines[1].label = JdosOnlyLabel
  /\ \A d \in AlphaDifferences(container) : lines[1].y # Drawn(d)
  /\ \E m \in 1..Len(lines[1].y) : lines[1].y[m] # 0

\* the mesh arguments the error taxonomy calls invalid
InvalidMesh == args.energy_max <= args.energy_min \/ args.step <= 0

\* the call has not gone past its first lines, or has raised
Rejected ==
  /\ pc \in {"generate_das", "generate_As", "raised"}
  /\ (pc = "generate_As") => (das_locals = None)
  /\ \A n \in 1..Len(calls) : calls[n].fn = "generate_As"
  /\ ret.ref = None /\ ret.new = None
  /\ das = None

\* C14: with energy_max <= energy_min or step <= 0, generate_das and
\* generate_As raise at once: no occupancy and no JDOS is computed, no mesh is
\* built and nothing is returned.
C14_InvalidMeshRejected == InvalidMesh => Rejected

\* C15: for a metallic system and a temperature <= 0 (the mesh being valid),
\* generate_das and generate_As raise at once: band_occupancies is not run
\* with that temperature and nothing is returned.
C15_ColdMetalRejected ==
  (referenceSystem.bs.is_metal /\ args.temp <= 0 /\ ~InvalidMesh) =>
    /\ Rejected
    /\ raised = None => pc \in {"generate_das", "generate_As"}

\* the functions called so far
Called == {calls[n].fn : n \in 1..Len(calls)}

\* C16: internal_from_vasp with a WAVEDER file and a vasprun whose INCAR does
\* not enable LVEL raises a ValueError whose message is the LVEL instruction,
\* with the ISYM instruction in front of it exactly when ISYM is not -1 or 0
\* (a missing ISYM counts as 2), and at no point of that call is a
\* DielectricFunctionCalculator or an internalAs object built; with no WAVEDER
\* file nothing is raised whatever LVEL is, and the object returned has
\* dfc = None.
C16_LvelCheckedBeforeBuilding ==
  (vasp_pc # "not_called") =>
    LET incar == vasp_args.vasprun_file.incar
        file == vasp_args.waveder_file
        lvel_enabled == "LVEL" \in DOMAIN incar /\ incar["LVEL"]
        isym_allows == "ISYM" \in DOMAIN incar /\ incar["ISYM"] \in {-1, 0}
    IN /\ (file = Some("WAVEDER") /\ ~lvel_enabled) =>
            /\ "DielectricFunctionCalculator.from_vasp_objects" \notin Called
            /\ "internalAs.__init__" \notin Called
            /\ vasp_ret = None
            /\ vasp_pc \in {"internal_from_vasp", "if_waveder_file", "raised"}
            /\ (vasp_pc = "raised") =>
                 /\ Val(raised).type = "ValueError"
                 /\ Val(raised).message[Len(Val(raised).message)] = lvel_error_message
                 /\ isym_allows <=> (Val(raised).message = <<lvel_error_message>>)
                 /\ ~isym_allows <=>
                      (Val(raised).message = <<"ISYM must be set to 0 and ", lvel_error_message>>)
       /\ (file = None) =>
            /\ raised = None
            /\ vasp_pc # "raised"
            /\ "Waveder.from_binary" \notin Called
            /\ (vasp_pc = "returned") =>
                 /\ Val(vasp_ret).dfc = None
                 /\ Val(vasp_ret).bs = vasp_args.vasprun_file.band_structure

\* the call has raised for a WAVEDER file with LVEL absent and ISYM absent
C16_Witness ==
  /\ vasp_pc = "raised"
  /\ vasp_args.waveder_file = Some("WAVEDER")
  /\ DOMAIN vasp_args.vasprun_file.incar = {}
  /\ Len(Val(raised).message) = 2

\* the call has returned a system without dfc for a vasprun without LVEL and
\* no WAVEDER file
C16_WitnessNoFile ==
  /\ vasp_pc = "returned"
  /\ vasp_args.waveder_file = None
  /\ "LVEL" \notin DOMAIN vasp_args.vasprun_file.incar
  /\ Val(vasp_ret).dfc = None

\* the call that has returned in the last step, if one has
JustReturned ==
  IF pc = "generate_As" /\ ret.ref # None THEN {"ref"}
  ELSE IF pc \in {"difference", "returned"} THEN {self}
  ELSE {}

\* the mesh of a call
MeshOf(a) == Arange(a.energy_min, a.energy_max, a.step)

\* C17: when generate_As returns, the JDOS of every evaluated pair (i, f) of a
\* spin is in the returned dict under
\* the key (i - vb[spin], f - vb[spin]), followed by "up" or "down" for the
\* spin exactly when the band structure is spin-polarized (and, with
\* dielectric data, the weighted dict has the same keys); in every key the
\* second index is above the first.
C17_KeyOfTransition ==
  \A w \in JustReturned :
    LET sys == System(w)
        a == CallArgs(w)
        r == Val(ret[w])
        d == r.jdos_dark_if
    IN /\ \A p \in EvaluatedPairs(w) :
            LET s == p[1]
                i == p[2]
                f == p[3]
                key == IF sys.bs.is_spin_polarized
                       THEN <<i - sys.vb[s], f - sys.vb[s], IF s = SpinUp THEN "up" ELSE "down">>
                       ELSE <<i - sys.vb[s], f - sys.vb[s]>>
            IN /\ key \in DOMAIN d
               /\ d[key] = jdos(sys.bs, f, i, Val(OccsOf(sys, a))[s], MeshOf(a),
                                sys.kpoint_weights, a.gaussian_width, s)
       /\ \A key \in DOMAIN d :
            /\ Len(key) = (IF sys.bs.is_spin_polarized THEN 3 ELSE 2)
            /\ (Len(key) = 3) => key[3] \in {"up", "down"}
            /\ key[2] > key[1]
       /\ (r.weighted_jdos_dark_if # None) =>
            DOMAIN Val(r.weighted_jdos_dark_if) = DOMAIN d

\* a spin-polarized system of three bands has returned keys of both spins,
\* one of them with a negative first index
C17_Witness ==
  /\ ret.new # None
  /\ newSystem.bs.is_spin_polarized
  /\ <<-1, 0, "up">> \in DOMAIN Val(ret.new).jdos_dark_if
  /\ <<0, 1, "down">> \in DOMAIN Val(ret.new).jdos_dark_if
  /\ \E m \in 1..Len(Val(ret.new).jdos_dark_total) :
       Val(ret.new).jdos_dark_if[<<-1, 0, "up">>][m] # 0

\* the number of pairs i < f of the bands of every spin
NumTransitions(sys) ==
  SumSeq([n \in 1..Len(sys.bs.spin_order) |->
            (NumBands(sys, sys.bs.spin_order[n])
               * (NumBands(sys, sys.bs.spin_order[n]) - 1)) \div 2])

\* C18: during a generate_As call the dict holds one entry per transition
\* evaluated so far, so that no two transitions have had the same key and no
\* stored array has been overwritten; the dict returned has one entry per
\* transition, B(B-1)/2 for each spin.
C18_KeysUnique ==
  /\ InAs =>
       /\ Cardinality(DOMAIN jdos_dark_if) = Cardinality(EvaluatedPairs(self))
       /\ (System(self).dfc # None) =>
            Cardinality(DOMAIN weighted_jdos_dark_if) = Cardinality(EvaluatedPairs(self))
  /\ \A w \in Returned :
       Cardinality(DOMAIN Val(ret[w]).jdos_dark_if) = NumTransitions(System(w))

\* a spin-polarized system of two bands, whose two spins have the same
\* valence band index, has returned its two transitions
C18_Witness ==
  /\ ret.ref # None
  /\ referenceSystem.bs.is_spin_polarized
  /\ referenceSystem.vb[SpinUp] = referenceSystem.vb[SpinDown]
  /\ Cardinality(DOMAIN Val(ret.ref).jdos_dark_if) = 2

\* the band_occupancies calls a generate_As call has made
OccupancyCalls(w) ==
  {n \in 1..Len(calls) : calls[n].fn = "band_occupancies" /\ calls[n].self = w}

\* what a call returns when every evaluation reads the occupancies occ
ReturnWith(sys, a, occ, keys) ==
  LET mesh == MeshOf(a)
      spin(key) == IF Len(key) = 3 /\ key[3] = "down" THEN SpinDown ELSE SpinUp
      i(key) == key[1] + sys.vb[spin(key)]
      f(key) == key[2] + sys.vb[spin(key)]
  IN [ jdos_dark_if |->
         [key \in keys |-> jdos(sys.bs, f(key), i(key), occ[spin(key)], mesh,
                                 sys.kpoint_weights, a.gaussian_width, spin(key))],
       weighted_jdos_dark_if |->
         IF sys.dfc = None THEN None
         ELSE Some([key \in keys |->
                      jdos(sys.bs, f(key), i(key), occ[spin(key)], mesh,
                           [k \in Kpoints |-> sys.kpoint_weights[k]
                                                * Val(sys.dfc).tdm[i(key)][f(key)][k]],
                           a.gaussian_width, spin(key))]),
       alpha_dark |->
         IF sys.dfc = None THEN None
         ELSE Some(Interp(mesh, Egrid(Val(sys.dfc)),
                          SumArrays([n \in 1..Len(sys.bs.spin_order) |->
                                       occ_dependent_alpha(Val(sys.dfc),
                                                           occ[sys.bs.spin_order[n]],
                                                           a.gaussian_width, a.cshift,
                                                           a.processes,
                                                           a.energy_max).both],
                                    Val(sys.dfc).nedos))) ]

\* C19: a generate_As call given an occupancy override never runs
\* band_occupancies, and every JDOS, weighted JDOS and alpha it returns is the
\* one evaluated with the supplied occupancy of the transition's spin; a call
\* without override runs band_occupancies(temp) once and returns the values
\* evaluated with its result (checked while the call runs and when it
\* returns).
C19_OccupancySource ==
  /\ InAs =>
       /\ Cardinality(OccupancyCalls(self)) = (IF CallArgs(self).occs = None THEN 1 ELSE 0)
       /\ occs = (IF CallArgs(self).occs = None
                  THEN Some(band_occupancies(System(self), args.temp))
                  ELSE CallArgs(self).occs)
  /\ \A w \in JustReturned :
       LET sys == System(w)
           a == CallArgs(w)
           r == Val(ret[w])
           occ == IF a.occs = None THEN band_occupancies(sys, args.temp) ELSE Val(a.occs)
           expected == ReturnWith(sys, a, occ, DOMAIN r.jdos_dark_if)
       IN /\ Cardinality(OccupancyCalls(w)) = (IF a.occs = None THEN 1 ELSE 0)
          /\ \A n \in OccupancyCalls(w) : calls[n].temp = args.temp
          /\ r.jdos_dark_if = expected.jdos_dark_if
          /\ r.weighted_jdos_dark_if = expected.weighted_jdos_dark_if
          /\ r.alpha_dark = expected.alpha_dark

\* a spin-polarized metal with dielectric data has returned under an occupancy
\* override that differs between the spins and from band_occupancies
C19_Witness ==
  /\ ret.new # None
  /\ args.newSys_occs # None
  /\ newSystem.dfc # None
  /\ newSystem.bs.is_spin_polarized
  /\ Val(args.newSys_occs)[SpinUp] # Val(args.newSys_occs)[SpinDown]
  /\ Val(args.newSys_occs) # band_occupancies(newSystem, args.temp)
  /\ OccupancyCalls("new") = {}
  /\ \E m \in 1..Len(Val(ret.new).jdos_dark_total) :
       Val(Val(ret.new).alpha_dark)[m] # 0

AlphaOnGrid(sys, a, occ) ==
  SumArrays([n \in 1..Len(sys.bs.spin_order) |->
               occ_dependent_alpha(Val(sys.dfc), occ[sys.bs.spin_order[n]],
                                   a.gaussian_width, a.cshift, a.processes,
                                   a.energy_max).both],
            Val(sys.dfc).nedos)

\* C21: with dielectric data, while generate_As runs alpha_dark is on the
\* dielectric grid (nedos points); when it returns, alpha_dark holds the sum
\* over all spins on that grid, and the alpha returned has one value per JDOS
\* mesh point: the value of the first grid point at or left of the grid, of
\* the last at or right of it, and in between the straight line through the
\* two neighbouring grid points (grid point g at (g - 1) * deltae).
C21_AlphaInterpolatedOntoMesh ==
  /\ (InAs /\ System(self).dfc # None) =>
       Len(Val(alpha_dark)) = Val(System(self).dfc).nedos
  /\ \A w \in JustReturned :
       (System(w).dfc # None) =>
         LET sys == System(w)
             dfc == Val(sys.dfc)
             a == CallArgs(w)
             mesh == MeshOf(a)
             native == Val(alpha_dark)
             returned == Val(Val(ret[w]).alpha_dark)
         IN /\ native = AlphaOnGrid(sys, a, Val(occs))
            /\ Len(returned) = Len(mesh)
            /\ \A m \in 1..Len(mesh) :
                 LET x == mesh[m]
                 IN /\ (x <= 0) => (returned[m] = native[1])
                    /\ (x >= (dfc.nedos - 1) * dfc.deltae) =>
                         (returned[m] = native[dfc.nedos])
                    /\ \A g \in 1..(dfc.nedos - 1) :
                         ((g - 1) * dfc.deltae <= x /\ x < g * dfc.deltae) =>
                           returned[m] =
                             native[g] + ((native[g + 1] - native[g])
                                            * (x - (g - 1) * dfc.deltae)) \div dfc.deltae

\* a spin-polarized system with dielectric data has returned an alpha on a
\* mesh that lies between the grid points and is shorter than the grid, with a
\* value that is on neither neighbouring grid point
C21_Witness ==
  /\ ret.new # None
  /\ pc = "difference"
  /\ newSystem.dfc # None
  /\ newSystem.bs.is_spin_polarized
  /\ args.energy_min = 1
  /\ Len(Val(Val(ret.new).alpha_dark)) = 2
  /\ Len(Val(alpha_dark)) = 3
  /\ Val(Val(ret.new).alpha_dark)[1] \notin {Val(alpha_dark)[1], Val(alpha_dark)[2]}

\* the weighted jdos evaluations of a call, by position in the call log
WeightedCalls(w) ==
  {n \in 1..Len(calls) : calls[n].fn = "jdos" /\ calls[n].self = w /\ calls[n].weighted}

\* two arrays of equal length one of which is a number times the other
Proportional(x, y) ==
  \A m1, m2 \in 1..Len(x) : x[m1] * y[m2] = x[m2] * y[m1]

\* C22: with dielectric data, the weighted array generate_As returns for the
\* pair (i, f) of a spin is jdos evaluated with the f, i, occupancy, mesh,
\* width and spin of the unweighted evaluation and with weight
\* kpoint_weights[k] * tdm_array[i, f, k] at k-point k, where tdm_array is the
\* one occ_dependent_alpha returned for that spin; each weighted evaluation
\* follows the unweighted evaluation of the same pair.
C22_WeightedJdosReweightsKpoints ==
  \A w \in JustReturned :
    (System(w).dfc # None) =>
      LET sys == System(w)
          a == CallArgs(w)
          occ == Val(OccsOf(sys, a))
          weighted == Val(Val(ret[w]).weighted_jdos_dark_if)
      IN /\ \A p \in EvaluatedPairs(w) :
              LET s == p[1]
                  i == p[2]
                  f == p[3]
                  tdm == occ_dependent_alpha(Val(sys.dfc), occ[s], a.gaussian_width,
                                             a.cshift, a.processes, a.energy_max).tdm_array
              IN weighted[TransitionKey(sys, s, i, f)] =
                   jdos(sys.bs, f, i, occ[s], MeshOf(a),
                        [k \in Kpoints |-> sys.kpoint_weights[k] * tdm[i][f][k]],
                        a.gaussian_width, s)
         /\ \A n \in WeightedCalls(w) :
              /\ n > 1
              /\ calls[n - 1] = [calls[n] EXCEPT !.weighted = FALSE]

\* a system with dielectric data has returned a weighted array that is not a
\* multiple of the unweighted array of the same transition
C22_Witness ==
  /\ ret.new # None
  /\ pc = "difference"
  /\ newSystem.dfc # None
  /\ \E key \in DOMAIN Val(ret.new).jdos_dark_if :
       ~Proportional(Val(Val(ret.new).weighted_jdos_dark_if)[key],
                     Val(ret.new).jdos_dark_if[key])

\* the labels of the curves of the totals
TotalLabels ==
  {JdosOnlyLabel, AlphaLabel, "JDOS (light)", "JDOS (dark)", "α (light)", "α (dark)"}

\* the lines that are not curves of the totals: the curves of transitions
TransitionLines == {n \in 1..Len(lines) : lines[n].label \notin TotalLabels}

\* C23: get_plot in "auto" mode with transition_cutoff 1 draws the curves of
\* the totals and the curve of no transition, whatever yaxis is.
C23_CutoffOneShowsNoTransition ==
  (/\ plot_pc = "ylabel"
   /\ plot_args.relevant_transitions.auto
   /\ plot_args.transition_cutoff = 100) =>
     TransitionLines = {}

\* C28: get_plot with yaxis "jdos_diff", in any letter case, draws one total
\* curve, under the JDOS-only label: jdos_light_total - jdos_dark_total when
\* the container has alpha_dark and tas_total otherwise, never divided by a
\* normalisation; no curve carries an alpha label; transition_dict is
\* jdos_diff_if, and every transition curve drawn is an array of jdos_diff_if
\* (times 0.95 for each rescaling), undivided.
C28_JdosDiffNeverUsesAlpha ==
  (TotalsDrawn /\ Lower(plot_args.yaxis) = "jdos_diff") =>
    LET c == container
        total == IF c.alpha_dark # None
                 THEN ArrSub(c.jdos_light_total, c.jdos_dark_total)
                 ELSE c.tas_total
        totals == {n \in 1..Len(lines) : lines[n].label \in TotalLabels}
    IN /\ totals = {1}
       /\ lines[1] = [label |-> JdosOnlyLabel, x |-> Drawn(Val(plot_locals).energy_mesh),
                      y |-> Drawn(total), over |-> 1, scaled |-> 0]
       /\ DictKeys(Val(Val(plot_locals).transition_dict)) = DictKeys(c.jdos_diff_if)
       /\ \A n \in 1..Len(c.jdos_diff_if) :
            Val(Val(plot_locals).transition_dict)[n][2] =
              [values |-> c.jdos_diff_if[n][2], over |-> 1]
       /\ \A n \in TransitionLines :
            /\ lines[n].over = 1
            /\ \E k \in 1..Len(c.jdos_diff_if) :
                 lines[n].y = Drawn(c.jdos_diff_if[k][2])

\* yaxis "Jdos_Diff" on a container with dielectric data: the total and a
\* transition curve are drawn, the total is not an alpha difference and the
\* transition curve is no array of the weighted dict
C28_Witness ==
  /\ plot_pc = "ylabel"
  /\ plot_args.yaxis = "Jdos_Diff"
  /\ container.alpha_light_dict # None
  /\ \A d \in AlphaDifferences(container) : lines[1].y # Drawn(d)
  /\ \E n \in TransitionLines :
       \A k \in 1..Len(Val(container.weighted_jdos_diff_if)) :
         lines[n].y # Drawn(Val(container.weighted_jdos_diff_if)[k][2])

\* C30: after get_plot with a list of relevant_transitions and yaxis "tas",
\* "tas_absorption_only" or "jdos_diff", every transition curve drawn under
\* the label of key t has the data of transition_dict[t], whatever the order
\* of the keys of transition_dict and of jdos_light_if.
C30_LabelMatchesCurve ==
  (/\ plot_pc = "ylabel"
   /\ ~plot_args.relevant_transitions.auto
   /\ Lower(plot_args.yaxis) \in {"tas", "tas_absorption_only", "jdos_diff"}) =>
     LET transition_dict == Val(Val(plot_locals).transition_dict)
     IN \A n \in TransitionLines :
          \E k \in 1..Len(transition_dict) :
            /\ lines[n].label = Str(transition_dict[k][1])
            /\ lines[n].y = Drawn(transition_dict[k][2].values)
            /\ lines[n].over = transition_dict[k][2].over

\* C24: from_mpid returns a DASGenerator: its new system is the one
\* internal_from_mpid builds from mpid with bg, api_key and mpr (so a given bg is
\* the new system's band gap), its reference system the one built from mpid_ref
\* with bg_ref, api_key and mpr_ref
C24_FromMpidPassesItsArguments ==
  LET a == mpid_call.args
  IN /\ mpid_call.pc # "raised"
     /\ mpid_call.newSystem # None =>
          /\ Val(mpid_call.newSystem) =
               internal_from_mpid(a.mpid, a.bg, a.api_key, a.mpr)
          /\ a.bg # None => Val(mpid_call.newSystem).system.bs.band_gap = Val(a.bg)
     /\ mpid_call.pc = "returned" =>
          Val(mpid_call.referenceSystem) =
            internal_from_mpid(a.mpid_ref, a.bg_ref, a.api_key, a.mpr_ref)

\* the new system ignores the bg, api_key and mpr given to from_mpid
C24_NewSystemIgnoresArguments ==
  /\ mpid_call.newSystem # None
  /\ mpid_call.args.bg # None
  /\ Val(mpid_call.newSystem).system.bs.band_gap # Val(mpid_call.args.bg)

\* the call for the reference system raises
C24_ReferenceCallRaises ==
  /\ mpid_call.pc = "raised"
  /\ Val(raised).type = "TypeError"

\* the calls of generator.jdos (weighted or not) and of occ_dependent_alpha a
\* generate_As call has made
JdosCalls(w, weighted) ==
  {n \in 1..Len(calls) : /\ calls[n].fn = "jdos"
                         /\ calls[n].self = w
                         /\ calls[n].weighted = weighted}

AlphaCalls(w) ==
  {n \in 1..Len(calls) : calls[n].fn = "occ_dependent_alpha" /\ calls[n].self = w}

\* the calls made by a call that has returned are spins x B(B-1)/2 plain jdos
\* evaluations, as many weighted ones and one occ_dependent_alpha per spin with
\* dielectric data, none of either without; a running call has made no more
CallsCounted ==
  \A w \in {"ref", "new"} :
    LET sys == System(w)
        with_dfc == IF sys.dfc # None THEN 1 ELSE 0
    IN /\ Cardinality(JdosCalls(w, FALSE)) <= NumTransitions(sys)
       /\ Cardinality(JdosCalls(w, TRUE)) <= with_dfc * NumTransitions(sys)
       /\ Cardinality(AlphaCalls(w)) <= with_dfc * Cardinality(SpinsOf(sys))
       /\ (ret[w] # None) =>
            /\ Cardinality(JdosCalls(w, FALSE)) = NumTransitions(sys)
            /\ Cardinality(JdosCalls(w, TRUE)) = with_dfc * NumTransitions(sys)
            /\ Cardinality(AlphaCalls(w)) = with_dfc * Cardinality(SpinsOf(sys))

\* C25: generate_As always terminates: it returns, having made exactly one jdos
\* evaluation per spin and pair i < f (spins x B(B-1)/2), as many weighted ones
\* and one occ_dependent_alpha call per spin when the system has dielectric
\* data, none of either when it has none.
C25_GenerateAsTerminates ==
  /\ <>(pc \in {"returned", "done"})
  /\ [](Over => (pc # "raised" /\ ret[self] # None))
  /\ []CallsCounted

\* a generate_As call on a spin-polarized system of three bands with dielectric
\* data has returned after six plain and six weighted evaluations and two
\* occ_dependent_alpha calls
C25_Witness ==
  /\ pc = "returned"
  /\ ret.ref # None
  /\ referenceSystem.dfc # None
  /\ Cardinality(JdosCalls("ref", FALSE)) = 6
  /\ Cardinality(JdosCalls("ref", TRUE)) = 6
  /\ Cardinality(AlphaCalls("ref")) = 2

\* a call on a system without dielectric data has returned without a weighted
\* evaluation
C25_WitnessNoDielectric ==
  /\ pc = "returned"
  /\ referenceSystem.dfc = None
  /\ JdosCalls("ref", FALSE) # {}
  /\ JdosCalls("ref", TRUE) = {}
  /\ AlphaCalls("ref") = {}

\* C26: no step of generate_das or generate_As changes an input: the two
\* systems (band structure, k-point weights, bg_centre, vb, dfc) and the
\* arguments, occupancy overrides included, keep their values.
C26_InputsUnchanged ==
  [][/\ referenceSystem' = referenceSystem
     /\ newSystem' = newSystem
     /\ args' = args]_vars

\* generate_das has returned for two systems with dielectric data, whose
\* weighted evaluations used k-point weights other than the systems' own, and
\* with occupancy overrides passed for both
C26_Witness ==
  /\ pc = "done"
  /\ args.ref_occs # None
  /\ args.newSys_occs # None
  /\ JdosCalls("ref", TRUE) # {}
  /\ JdosCalls("new", TRUE) # {}
  /\ \E i, f \in BandIndices(newSystem, SpinUp) : \E k \in Kpoints :
       Val(newSystem.dfc).tdm[i][f][k] # 1

\* the generate_As calls made on a system
EntryCalls(w) ==
  {n \in 1..Len(calls) : calls[n].fn = "generate_As" /\ calls[n].self = w}

\* C27: generate_das calls generate_As on the reference system with ref_occs
\* and on the new system with newSys_occs, both with its own temp, energy_min,
\* energy_max, gaussian_width, cshift, step and processes; each system is
\* generated at most once, the reference system first, and exactly once when
\* generate_das returns; the result exists only after both calls have
\* returned, and its total is new minus reference.
C27_EachSystemOnceThenDifference ==
  /\ \A w \in {"ref", "new"} :
       /\ Cardinality(EntryCalls(w)) <= 1
       /\ \A n \in EntryCalls(w) :
            /\ calls[n].args.occs = (IF w = "ref" THEN args.ref_occs ELSE args.newSys_occs)
            /\ calls[n].args.temp = args.temp
            /\ calls[n].args.energy_min = args.energy_min
            /\ calls[n].args.energy_max = args.energy_max
            /\ calls[n].args.gaussian_width = args.gaussian_width
            /\ calls[n].args.cshift = args.cshift
            /\ calls[n].args.step = args.step
            /\ calls[n].args.processes = args.processes
  /\ (EntryCalls("new") # {}) => (ret.ref # None)
  /\ (pc \in {"difference", "done"}) =>
       /\ ret.ref # None /\ ret.new # None
       /\ Cardinality(EntryCalls("ref")) = 1
       /\ Cardinality(EntryCalls("new")) = 1
  /\ (das # None) <=> (pc = "done")
  /\ (pc = "done") =>
       Val(das).das_total =
         (IF BothHaveDfc
          THEN ArrSub(Val(Val(ret.new).alpha_dark), Val(Val(ret.ref).alpha_dark))
          ELSE ArrSub(Val(ret.new).jdos_dark_total, Val(ret.ref).jdos_dark_total))

\* generate_das has returned a difference that is not zero for a call with an
\* override for the reference system only
C27_Witness ==
  /\ pc = "done"
  /\ args.ref_occs # None
  /\ args.newSys_occs = None
  /\ \E n \in EntryCalls("new") : calls[n].args.occs = None
  /\ \E n \in EntryCalls("ref") : calls[n].args.occs # None
  /\ \E m \in 1..Len(Val(das).das_total) : Val(das).das_total[m] # 0

\* the list returned has the length of the list given, None where that has
\* None, and at every other position the curve given there times a power of
\* 0.95
ReturnedListKeepsShape ==
  LET given == rescale.list_of_curves
      out == rescale.output_list_of_curves
  IN /\ Len(out) = Len(given)
     /\ \A n \in 1..Len(given) :
          IF given[n] = None THEN out[n] = None
          ELSE /\ out[n] # None
               /\ Val(out[n]).values = Val(given[n]).values
               /\ Val(out[n]).over = Val(given[n]).over

\* C29: _rescale_overlapping_curves terminates for every list of curves: it
\* returns, the while loop having run finitely often for each curve, and the
\* list it returns has the length and order of the list given, with None kept
\* where it was.
C29_RescaleReturnsTheList ==
  /\ <>(rescale.pc = "returned")
  /\ [](rescale.pc = "returned" => ReturnedListKeepsShape)

\* every call ends, by its return or by the exception of line 215, and no
\* curve is scaled as often as MaxScalings times
C29_EndsByReturnOrRaise ==
  /\ <>(rescale.pc \in {"returned", "raised"})
  /\ [](rescale.scaled < MaxScalings)
  /\ [](rescale.pc = "returned" => ReturnedListKeepsShape)

\* the exception is raised exactly for the lists without a curve
C29_RaisedWithoutCurve ==
  (rescale.pc = "raised") <=>
    (rescale.pc # "max_curve" /\ NotNone(rescale.list_of_curves) = {})

\* a list of three curves has been returned with a curve scaled six times
C29_ScaledSixTimes ==
  /\ rescale.pc = "returned"
  /\ Len(rescale.output_list_of_curves) = 3
  /\ \E n \in 1..3 : /\ rescale.output_list_of_curves[n] # None
                     /\ Val(rescale.output_list_of_curves[n]).scaled >= 6

\* a list of nothing but None has made the call raise
C29_AllNoneRaises ==
  /\ rescale.pc = "raised"
  /\ Len(rescale.list_of_curves) = 2

====
